---- MODULE Spec2Model ----
(***************************************************************************)
(* Verification model of the silly-game-engine runtime core: the Transform *)
(* Registry (engine/context/transform.rs), the message bus of the          *)
(* orchestrator (engine/mod.rs) and the physics bridge                     *)
(* (physics/mod.rs, physics/rapier_engine.rs).                             *)
(*                                                                         *)
(* Three specifications share the variables of the module:                 *)
(*   SpecTr    the Transform Registry and its handles                      *)
(*   SpecBus   Engine::handle_messages / handle_message                    *)
(*   SpecPhys  the physics thread against the render thread                *)
(***************************************************************************)
EXTENDS Integers, Sequences, FiniteSets, TLC

VARIABLES
    \* ---- Transform Registry (TransformRegistry.transforms) ----
    transforms,   \* sequence of nodes; a node's TransformId is its index
    lastOp,       \* the last registry operation performed (history)
    \* ---- Entity Registry (EntityRegistry.entities) ----
    registry,     \* the ids of the entities in the registry
    \* ---- message bus (Engine, EventHandler, renderer, entities) ----
    ehQueue,      \* EventHandler.messages
    rnQueue,      \* ThreedRenderer.messages
    entQueue,     \* each entity's messages
    stack,        \* the active handle_messages calls, innermost last
    log,          \* the messages dispatched so far, with their drain cycle (history)
    nextSeq,      \* enqueue stamp of the next message (history)
    nextCycle,    \* number of the next drain cycle (history)
    \* ---- physics command channel (mpsc::channel) ----
    channel,      \* commands sent and not yet received
    \* ---- physics bridge (RapierEngine) and the two threads ----
    body,         \* each entity's PhysicsBody component: its RigidBodyState
    rbSet,        \* RapierEngine.rigid_body_set, by handle
    published,    \* the step that last wrote each half of a transform (history)
    elock,        \* owner of each entity's mutex
    mapLock,      \* owner of the RwLock of EntityRegistry.entities
    trLock,       \* owner of the RwLock of the TransformRegistry
    ppc,          \* position of the physics thread
    pcmds,        \* step: the commands collected and not yet handled
    psnap,        \* step: the entities the publish loop has still to visit
    stepNo,       \* number of steps begun
    phaseLog,     \* what the current step has done so far (history)
    atCollect,    \* the channel content when the current step began (history)
    mpc,          \* position of the render/orchestrator thread
    mainOps,      \* operations the render/orchestrator thread has begun
    seen,         \* the last transform the renderer read (history)
    \* ---- the clock of the physics loop (PhysicsEngine) ----
    clock,        \* Instant::now(), last_physics_step and the loop's locals
    \* ---- the entity registry as a map, and one event dispatch over it ----
    ereg,         \* EntityRegistry.entities and the iteration of send_event
    \* ---- the recursion of TransformRegistry::get ----
    walk,         \* the frames of one call of TransformRegistry::get
    \* ---- the Context and the TransformRegistry in it ----
    ctx,          \* Context.items, the registries made for it and the handles given out
    \* ---- the component store of an entity ----
    cset,         \* ComponentSet.components of one entity, and the last call on it
    \* ---- the node hierarchy of a Model ----
    flat,         \* a Model and the result of get_nodes_flattened on it
    \* ---- the statements of handle_messages ----
    drain,        \* where a call of handle_messages is between its statements
    \* ---- the parts of the Engine and their clones of the EntityRegistry ----
    share         \* which entity map each part of the Engine holds, and the maps' entities

trVars == <<transforms, lastOp>>

busVars == <<ehQueue, rnQueue, entQueue, stack, log, nextSeq, nextCycle>>

physVars == <<body, rbSet, published, elock, mapLock, trLock, ppc, pcmds, psnap,
              stepNo, phaseLog, atCollect, mpc, mainOps, seen, clock, ereg, walk, ctx,
              cset, flat, drain, share>>

sideVars == <<clock, ereg, walk, ctx, cset, flat, drain, share>>

vars == <<transforms, lastOp, registry, ehQueue, rnQueue, entQueue, stack, log,
          nextSeq, nextCycle, channel, body, rbSet, published, elock, mapLock,
          trLock, ppc, pcmds, psnap, stepNo, phaseLog, atCollect, mpc, mainOps,
          seen, clock, ereg, walk, ctx, cset, flat, drain, share>>

(***************************************************************************)
(* Bounds                                                                  *)
(***************************************************************************)
MaxTransforms == 3

\* messages enqueued from outside a drain
MaxMsgs == 3

\* top-level calls of handle_messages
MaxCycles == 2

\* nested calls of handle_messages
MaxDepth == 4

\* turns of the physics loop
MaxSteps == 2

\* operations of the render/orchestrator thread while physics exists
MaxMainOps == 2

\* milliseconds the clock of the physics loop is followed for
MaxClock == 30

\* physics threads the model can tell apart
MaxThreads == 3

\* operations on the entity registry (add, remove, get, len)
MaxRegOps == 4

\* window events dispatched to the entities
MaxEvents == 2

\* frames of get the stack of a thread has room for
MaxStack == 6

\* operations on the Context and on the handles of its transform registries
MaxCtxOps == 5

\* operations on the component store of an entity
MaxCompOps == 4

\* nodes in the hierarchy of a Model
MaxNodes == 4

(***************************************************************************)
(* Option<T>: None is the empty set, Some(x) is {x}.                       *)
(***************************************************************************)
None == {}

Some(x) == {x}

Unwrap(o) == CHOOSE x \in o : TRUE

(***************************************************************************)
(* glam::Vec3 and glam::Quat.  Vectors are integer triples.  Rotations are *)
(* the axis-aligned rotations, written as signed permutations: q[i] = k    *)
(* means that component i of the rotated vector is component |k| of the    *)
(* argument with the sign of k.  The group is not commutative.             *)
(***************************************************************************)
Abs(x) == IF x < 0 THEN -x ELSE x

Sgn(x) == IF x < 0 THEN -1 ELSE 1

VecAdd(a, b) == [i \in 1..3 |-> a[i] + b[i]]

\* Quat * Vec3
QuatRotate(q, v) == [i \in 1..3 |-> Sgn(q[i]) * v[Abs(q[i])]]

\* Quat * Quat: (q * r) rotates by r first, then by q
QuatMul(q, r) == [i \in 1..3 |-> Sgn(q[i]) * r[Abs(q[i])]]

QuatIdentity == <<1, 2, 3>>

\* quarter turns about the z, x and y axes
QuatZ90 == <<-2, 1, 3>>

QuatX90 == <<1, -3, 2>>

QuatY90 == <<3, 2, -1>>

\* BasicTransform
BasicTransform(t, r, s) == [translation |-> t, rotation |-> r, scale |-> s]

\* the transforms callers pass to transform() and set()
BasicTransforms ==
    {BasicTransform(<<1, 0, 0>>, QuatZ90, <<1, 1, 1>>),
     BasicTransform(<<0, 2, 0>>, QuatX90, <<1, 1, 1>>)}

\* BasicTransform::add(self, rhs)
Add(self, rhs) ==
    [translation |-> VecAdd(QuatRotate(rhs.rotation, self.translation), rhs.translation),
     rotation    |-> QuatMul(rhs.rotation, self.rotation),
     scale       |-> VecAdd(self.scale, rhs.scale)]

(***************************************************************************)
(* TransformRegistry                                                       *)
(***************************************************************************)
\* an id no node of this registry has (a handle of another registry)
UnknownTransformId == MaxTransforms + 2

\* the ids a caller can hold
KnownIds == DOMAIN transforms

\* a mutant of get: composes with the parent's stored global field
GetCached(trs, id) ==
    IF id \notin DOMAIN trs THEN None
    ELSE IF trs[id].parent # None
         THEN IF Unwrap(trs[id].parent) \notin DOMAIN trs THEN None
              ELSE Some([trs[id] EXCEPT !.global =
                           Add(trs[Unwrap(trs[id].parent)].global, trs[id].local)])
         ELSE Some([trs[id] EXCEPT !.global = trs[id].local])

\* a mutant of get: the node as it is stored, global field included
GetStored(trs, id) == IF id \in DOMAIN trs THEN Some(trs[id]) ELSE None

\* TransformRegistry::get
RECURSIVE Get(_, _)
Get(trs, id) ==
    IF id \notin DOMAIN trs THEN None
    ELSE IF trs[id].parent # None
         THEN LET p == Get(trs, Unwrap(trs[id].parent)) IN
              IF p = None THEN None
              ELSE Some([trs[id] EXCEPT !.global = Add(Unwrap(p).global, trs[id].local)])
         ELSE Some([trs[id] EXCEPT !.global = trs[id].local])

\* Transform::local
Local(trs, id) == IF Get(trs, id) = None THEN None ELSE Some(Unwrap(Get(trs, id)).local)

\* Transform::global
Global(trs, id) == IF Get(trs, id) = None THEN None ELSE Some(Unwrap(Get(trs, id)).global)

\* a mutant of set: the value is written to every node of the registry
SetEveryLocal(trs, id, bt) ==
    IF id \in DOMAIN trs THEN [i \in DOMAIN trs |-> [trs[i] EXCEPT !.local = bt]] ELSE trs

\* TransformRegistry::set: the new registry content
SetLocal(trs, id, bt) ==
    IF id \in DOMAIN trs THEN [trs EXCEPT ![id].local = bt] ELSE trs

\* the closures TestObj::input passes to with_mut
Mutators == {"TranslateZ", "RotateY"}

ApplyMutator(f, bt) ==
    IF f = "TranslateZ"
    THEN [bt EXCEPT !.translation = VecAdd(bt.translation, <<0, 0, 1>>)]
    ELSE [bt EXCEPT !.rotation = QuatMul(bt.rotation, QuatY90)]

\* Transform::with_mut: the registry content after the call.  reg_t is the
\* copy that get returns; f runs on the copy's local and the copy is dropped.
WithMutRegistry(trs, id, f) ==
    LET reg_t == Unwrap(Get(trs, id))
        t_mut == ApplyMutator(f, reg_t.local)
    IN  trs

\* a call and its outcome: what it was given (arg) and whether it returned
\* Some, returned None or panicked (res)
Op(kind, id, before, f) ==
    [kind |-> kind, id |-> id, before |-> before, f |-> f, arg |-> None, res |-> "Some"]

\* a panic while the write guard of the registry's RwLock is alive poisons
\* the lock: every later read().unwrap() and write().unwrap() panics too
Poisoned == lastOp.res = "panic"

\* TransformRegistry::set: what it returns
SetResult(trs, id) == IF id \in DOMAIN trs THEN "Some" ELSE "None"

\* a mutant of transform(): the id of the new node can be one that is in use,
\* and the insert then replaces that node
TrTransformAnyId ==
    /\ ~Poisoned
    /\ Len(transforms) < MaxTransforms
    /\ \E bt \in BasicTransforms : \E id \in 1..(Len(transforms) + 1) :
       \E parent \in {None} \cup {Some(p) : p \in KnownIds \cup {UnknownTransformId}} :
          /\ transforms' = [i \in 1..(IF id > Len(transforms) THEN id ELSE Len(transforms)) |->
                              IF i = id THEN [parent |-> parent, local |-> bt, global |-> bt]
                              ELSE transforms[i]]
          /\ lastOp' = Op("transform", id, None, "")
    /\ UNCHANGED <<registry, busVars, channel, physVars>>

\* TransformRegistry::transform: a new node with a fresh id
TrTransform ==
    /\ ~Poisoned
    /\ Len(transforms) < MaxTransforms
    /\ \E bt \in BasicTransforms :
       \E parent \in {None} \cup {Some(p) : p \in KnownIds \cup {UnknownTransformId}} :
          /\ transforms' = Append(transforms,
                                  [parent |-> parent, local |-> bt, global |-> bt])
          /\ lastOp' = Op("transform", Len(transforms) + 1, None, "")
    /\ UNCHANGED <<registry, busVars, channel, physVars>>

\* Transform::set through a handle
TrSet ==
    \E id \in KnownIds \cup {UnknownTransformId} : \E bt \in BasicTransforms :
       /\ ~Poisoned
       /\ transforms' = SetLocal(transforms, id, bt)
       /\ lastOp' = [Op("set", id, None, "") EXCEPT !.arg = Some(bt),
                                                    !.res = SetResult(transforms, id)]
       /\ UNCHANGED <<registry, busVars, channel, physVars>>

\* Transform::with_mut through a handle of an existing node
TrWithMut ==
    \E id \in KnownIds : \E f \in Mutators :
       /\ ~Poisoned
       /\ Get(transforms, id) # None
       /\ transforms' = WithMutRegistry(transforms, id, f)
       /\ lastOp' = Op("with_mut", id, Local(transforms, id), f)
       /\ UNCHANGED <<registry, busVars, channel, physVars>>

\* Transform::with_mut through a handle whose id get does not resolve:
\* get(self.id).unwrap() panics on the None
TrWithMutMiss ==
    \E id \in KnownIds \cup {UnknownTransformId} : \E f \in Mutators :
       /\ ~Poisoned
       /\ Get(transforms, id) = None
       /\ transforms' = transforms
       /\ lastOp' = [Op("with_mut", id, None, f) EXCEPT !.res = "panic"]
       /\ UNCHANGED <<registry, busVars, channel, physVars>>

\* TransformRegistry::new
TrNew ==
    /\ transforms = <<>>
    /\ lastOp = Op("new", UnknownTransformId, None, "")

(***************************************************************************)
(* Entities                                                                *)
(***************************************************************************)
\* the entities main() builds: a DefaultCamera and TestObj objects
Entities == {"camera", "lantern", "avocado"}

\* the entities whose update() pushes a message (TestObj::update)
TestObjs == {"lantern", "avocado"}

\* an Entity implementation whose update() asks for another frame: it pushes
\* a Render and a RedrawComplete message for the window to its queue
Redrawers == {"redrawer"}

\* the entities that can have a message queue
BusEntities == Entities \cup Redrawers

\* the orders in which an iteration over a snapshot of the registry's map
\* can visit a set of entities (EntityRegistry::into_iter)
Orders(S) ==
    {o \in [1..Cardinality(S) -> S] : \A i, j \in 1..Cardinality(S) : i # j => o[i] # o[j]}

(***************************************************************************)
(* Physics bridge: state                                                   *)
(***************************************************************************)
\* the entity no thread works on, and the thread position outside any
\* operation
NoEntity == ""

Idle == [op |-> "idle", e |-> NoEntity, stage |-> ""]

\* the clock before PhysicsEngine::new, in milliseconds: no step yet
ClockIdle ==
    [pc |-> "unbuilt", now |-> 0, lastPhysicsStep |-> 0, beforeStep |-> 0,
     prevStep |-> 0, delta |-> 0, k |-> 0, stepTime |-> 0, slept |-> 0,
     physicsEngine |-> None, threads |-> 0, started |-> ""]

\* entity containers (Arc<Mutex<Box<dyn Entity>>>): h2 holds a copy of the
\* entity of h1 (clone_box keeps the id), h3 another entity
RegHandles == {"h1", "h2", "h3"}

\* EntityContainer::id: the id the entity was created with
EntityId(h) == IF h = "h3" THEN "b" ELSE "a"

RegIds == {EntityId(h) : h \in RegHandles}

\* HashMap::new: no id has an entry
EmptyMap == [id \in RegIds |-> None]

\* EntityRegistry::new: an empty map, and no event dispatched yet
RegIdle ==
    [entities |-> EmptyMap, n |-> 0, op |-> [kind |-> "new", arg |-> "", res |-> None],
     lock |-> "none", event |-> "", running |-> FALSE, sent |-> 0,
     snap |-> << >>, atCall |-> {}, yielded |-> << >>, inputs |-> << >>]

\* no call of get under way
WalkIdle == [pc |-> "idle", id |-> 0, cur |-> 0, depth |-> 0, res |-> ""]

\* the TransformRegistry values made with TransformRegistry::new(context.clone())
CtxRegistries == {"R1", "R2"}

\* Context::new, and registries that hold no node yet
CtxIdle ==
    [entry |-> None, added |-> {}, nodes |-> [r \in CtxRegistries |-> << >>],
     handles |-> {}, n |-> 0,
     op |-> [kind |-> "new", id |-> 0, home |-> "", arg |-> None, res |-> None]]

\* the component types of the repository's entities
CompTypes == {"Transform3D", "Transform", "PhysicsBody"}

\* ComponentSet::new: no component, nothing added yet
CompIdle ==
    [components |-> {}, n |-> 0,
     added |-> [C \in CompTypes |-> None], unwritten |-> [C \in CompTypes |-> None],
     replaced |-> None,
     op |-> [kind |-> "new", type |-> "", arg |-> None, res |-> None]]

\* no Model built yet
FlatIdle == [pc |-> "idle", model |-> [parent |-> << >>, transform |-> << >>], out |-> << >>]

\* no call of handle_messages under way
DrainIdle == [pc |-> "idle", todo |-> << >>]

\* the entity maps a caller can have made (EntityRegistry::new), shared by the
\* clones of their registry
ShareMaps == {"M1", "M2"}

\* before Engine::new: no part holds a registry yet
ShareIdle == [built |-> FALSE,
              entities |-> [m \in ShareMaps |-> {}],
              objects |-> [p \in {} |-> "M1"]]

\* before PhysicsEngine::new: no simulation, no thread, every lock free
PhysIdle ==
    /\ share = ShareIdle
    /\ drain = DrainIdle
    /\ flat = FlatIdle
    /\ cset = CompIdle
    /\ ctx = CtxIdle
    /\ walk = WalkIdle
    /\ clock = ClockIdle
    /\ ereg = RegIdle
    /\ rbSet = << >>
    /\ published = [e \in Entities |-> [pos |-> 0, rot |-> 0]]
    /\ elock = [e \in Entities |-> "none"]
    /\ mapLock = "none"
    /\ trLock = "none"
    /\ ppc = "unbuilt"
    /\ pcmds = <<>>
    /\ psnap = <<>>
    /\ stepNo = 0
    /\ phaseLog = <<>>
    /\ atCollect = <<>>
    /\ mpc = Idle
    /\ mainOps = 0
    /\ seen = None

(***************************************************************************)
(* Message bus: Engine::handle_messages and Engine::handle_message         *)
(***************************************************************************)
\* the windows of Engine.windows, and a WindowId that is not in it
OpenWindows == {"w1"}

\* the commands a queued message can carry (MessageCommand), with the window
\* or entity it names
MsgChoices ==
    {[kind |-> "Render", arg |-> "w1"],
     [kind |-> "HandleResize", arg |-> "w1"],
     [kind |-> "RedrawComplete", arg |-> "w1"],
     [kind |-> "WindowEvent", arg |-> "w1"],
     [kind |-> "Physics", arg |-> "lantern"],
     [kind |-> "Render", arg |-> "w2"]}

\* the commands whose handler looks the window up in Engine.windows
WindowKinds == {"Render", "HandleResize", "RedrawComplete"}

\* the Result of handle_message: "window not found" for an unknown WindowId
Result(msg) ==
    IF msg.kind \in WindowKinds /\ msg.arg \notin OpenWindows THEN "err" ELSE "ok"

\* the queues a message can wait in: the two subsystem queues and one queue
\* per entity
QueueNames == {"EventHandler", "Renderer"} \cup BusEntities

\* position of a queue in the list msg_queues of handle_messages
QueueRank(q) == IF q = "EventHandler" THEN 1 ELSE IF q = "Renderer" THEN 2 ELSE 3

\* the drain cycles whose handle_messages call is active
ActiveCycles == {stack[k].cycle : k \in DOMAIN stack}

\* Message; q, seq and born are history: the queue it was pushed to, its
\* enqueue stamp and the drain cycles that were active when it was pushed
Message(c, q, seq) ==
    [kind |-> c.kind, arg |-> c.arg, q |-> q, seq |-> seq, born |-> ActiveCycles]

\* the entity queues of a snapshot, concatenated in iteration order
RECURSIVE Flatten(_, _)
Flatten(order, queues) ==
    IF order = <<>> THEN <<>>
    ELSE queues[Head(order)] \o Flatten(Tail(order), queues)

\* msg_queues of handle_messages: clones of the EventHandler queue, the
\* renderer queue and the entities' queues
Snapshot(order) == <<ehQueue, rnQueue, Flatten(order, entQueue)>>

\* a mutant of the queue choice: the last non-empty queue first
NextQueueLast(rem) == CHOOSE i \in 1..3 : rem[i] # <<>> /\ \A j \in (i + 1)..3 : rem[j] = <<>>

\* the queue the dispatch loop is at: the first non-empty one
NextQueue(rem) == CHOOSE i \in 1..3 : rem[i] # <<>> /\ \A j \in 1..(i - 1) : rem[j] = <<>>

\* the messages a frame has still to dispatch
Remaining(frame) == frame.rem[1] \o frame.rem[2] \o frame.rem[3]

\* the top frame, and the stack with the top frame's next message popped
Top == stack[Len(stack)]

Popped ==
    [stack EXCEPT ![Len(stack)].rem[NextQueue(Top.rem)] = Tail(Top.rem[NextQueue(Top.rem)])]

NextMsg == Head(Top.rem[NextQueue(Top.rem)])

\* the entity queues after the renderer called update() on every entity of
\* the registry: a TestObj pushes an ApplyForce message for itself
RECURSIVE UpdateAll(_, _, _)
UpdateAll(order, queues, seq) ==
    IF order = <<>> THEN queues
    ELSE IF Head(order) \in TestObjs
         THEN UpdateAll(Tail(order),
                        [queues EXCEPT ![Head(order)] =
                            Append(@, Message([kind |-> "Physics", arg |-> Head(order)],
                                              Head(order), seq))],
                        seq + 1)
    ELSE IF Head(order) \in Redrawers
         THEN UpdateAll(Tail(order),
                        [queues EXCEPT ![Head(order)] =
                            @ \o <<Message([kind |-> "Render", arg |-> "w1"],
                                           Head(order), seq),
                                   Message([kind |-> "RedrawComplete", arg |-> "w1"],
                                           Head(order), seq + 1)>>],
                        seq + 2)
         ELSE UpdateAll(Tail(order), queues, seq)

\* the number of messages one round of update() pushes
UpdateCount(S) == Cardinality(S \cap TestObjs) + 2 * Cardinality(S \cap Redrawers)

\* the queues right after construction
BusNew ==
    /\ ehQueue = <<>>
    /\ rnQueue = <<>>
    /\ entQueue = [e \in BusEntities |-> <<>>]
    /\ stack = <<>>
    /\ log = <<>>
    /\ nextSeq = 1
    /\ nextCycle = 1

\* a subsystem pushes a message to its own queue between drains
\* (get_messages_mut)
BusEnqueue ==
    /\ stack = <<>>
    /\ nextSeq <= MaxMsgs
    /\ \E q \in {"EventHandler", "Renderer"} : \E c \in MsgChoices :
          /\ ehQueue' = IF q = "EventHandler"
                        THEN Append(ehQueue, Message(c, q, nextSeq)) ELSE ehQueue
          /\ rnQueue' = IF q = "Renderer"
                        THEN Append(rnQueue, Message(c, q, nextSeq)) ELSE rnQueue
    /\ nextSeq' = nextSeq + 1
    /\ UNCHANGED <<entQueue, stack, log, nextCycle, registry, trVars, channel, physVars>>

\* Engine::handle_render between drains: the renderer calls update() on
\* every entity
BusHandleRender ==
    /\ stack = <<>>
    /\ nextSeq <= MaxMsgs
    /\ \E order \in Orders(registry) :
          /\ entQueue' = UpdateAll(order, entQueue, nextSeq)
          /\ nextSeq' = nextSeq + UpdateCount(registry)
    /\ UNCHANGED <<ehQueue, rnQueue, stack, log, nextCycle, registry, trVars, channel, physVars>>

\* handle_messages, up to its dispatch loop: the snapshot is taken and the
\* subsystems' and entities' queues are cleared.  base is the stack of the
\* callers.
TakeSnapshot(base) ==
    \E order \in Orders(registry) :
       /\ stack' = Append(base, [cycle |-> nextCycle, rem |-> Snapshot(order),
                                 snap |-> Snapshot(order)[1] \o Snapshot(order)[2]
                                             \o Snapshot(order)[3]])
       /\ ehQueue' = <<>>
       /\ rnQueue' = <<>>
       /\ entQueue' = [e \in BusEntities |-> IF e \in registry THEN <<>> ELSE entQueue[e]]
       /\ nextCycle' = nextCycle + 1

\* a top-level call of handle_messages (Engine::init)
BusStartDrain ==
    /\ stack = <<>>
    /\ nextCycle <= MaxCycles
    /\ TakeSnapshot(stack)
    /\ UNCHANGED <<log, nextSeq, registry, trVars, channel, physVars>>

Logged == Append(log, [msg |-> NextMsg, cycle |-> Top.cycle, res |-> Result(NextMsg)])

\* a mutant of the error arm: the drain is given up
DrainAborted(st) == [st EXCEPT ![Len(st)].rem = <<<<>>, <<>>, <<>>>>]

\* Err(e) => { log::error!(..); continue }: the loop goes on with the stack
\* it has
OnError(st) == st

\* the stack after the dispatch of a message with the given Result
Continued(st, res) == IF res = "err" THEN OnError(st) ELSE st

\* one turn of the dispatch loop on a RendererCommand::Render message
BusDispatchRender ==
    /\ stack # <<>> /\ Remaining(Top) # <<>>
    /\ NextMsg.kind = "Render"
    /\ log' = Logged
    /\ stack' = Continued(Popped, Result(NextMsg))
    /\ IF NextMsg.arg \in OpenWindows
       THEN \E order \in Orders(registry) :
               /\ entQueue' = UpdateAll(order, entQueue, nextSeq)
               /\ nextSeq' = nextSeq + UpdateCount(registry)
       ELSE UNCHANGED <<entQueue, nextSeq>>
    /\ UNCHANGED <<ehQueue, rnQueue, nextCycle, registry, trVars, channel, physVars>>

\* ... on a HandleResize message or an EventHandlerCommand::WindowEvent
\* message (send_event calls input() on every entity; no input() of the
\* repository pushes a message)
BusDispatchOther ==
    /\ stack # <<>> /\ Remaining(Top) # <<>>
    /\ NextMsg.kind \in {"HandleResize", "WindowEvent"}
    /\ log' = Logged
    /\ stack' = Continued(Popped, Result(NextMsg))
    /\ UNCHANGED <<ehQueue, rnQueue, entQueue, nextSeq, nextCycle, registry, trVars, channel, physVars>>

\* a mutant of the channel: a send waits until the receiver has taken what
\* was sent before
SendWaits(ch) == ch = <<>>

\* mpsc::channel() is unbounded: Sender::send returns at once
SendReturns(ch) == TRUE

\* ... on a PhysicsCommand message: send_command
BusDispatchPhysics ==
    /\ stack # <<>> /\ Remaining(Top) # <<>>
    /\ NextMsg.kind = "Physics"
    /\ SendReturns(channel)
    /\ log' = Logged
    /\ stack' = Popped
    /\ channel' = Append(channel, [kind |-> "ApplyForce", id |-> NextMsg.arg,
                                    n |-> NextMsg.seq])
    /\ UNCHANGED <<ehQueue, rnQueue, entQueue, nextSeq, nextCycle, registry, trVars, physVars>>

\* ... on EngineCommand::RedrawComplete: handle_messages is called again
BusDispatchRedrawComplete ==
    /\ stack # <<>> /\ Remaining(Top) # <<>>
    /\ NextMsg.kind = "RedrawComplete"
    /\ Len(stack) < MaxDepth
    /\ log' = Logged
    /\ TakeSnapshot(Popped)
    /\ UNCHANGED <<nextSeq, registry, trVars, channel, physVars>>

\* the dispatch loop of the innermost call ends and the call returns
BusReturn ==
    /\ stack # <<>> /\ Remaining(Top) = <<>>
    /\ stack' = SubSeq(stack, 1, Len(stack) - 1)
    /\ UNCHANGED <<ehQueue, rnQueue, entQueue, log, nextSeq, nextCycle, registry,
                   trVars, channel, physVars>>

InitBus ==
    /\ TrNew
    /\ registry = {"camera", "lantern"}
    /\ BusNew
    /\ channel = <<>>
    /\ body = [e \in Entities |-> IF e \in TestObjs THEN "Pending" ELSE "None"]
    /\ PhysIdle

NextBus ==
    \/ BusEnqueue
    \/ BusHandleRender
    \/ BusStartDrain
    \/ BusDispatchRender
    \/ BusDispatchOther
    \/ BusDispatchPhysics
    \/ BusDispatchRedrawComplete
    \/ BusReturn

SpecBus == InitBus /\ [][NextBus]_vars

\* the same engine with an entity in the registry whose update() asks for
\* another frame
InitFeed ==
    /\ TrNew
    /\ registry = {"camera"} \cup Redrawers
    /\ BusNew
    /\ channel = <<>>
    /\ body = [e \in Entities |-> "None"]
    /\ PhysIdle

SpecFeed == InitFeed /\ [][NextBus]_vars

(***************************************************************************)
(* Claims about the message bus (checked under SpecBus)                    *)
(***************************************************************************)
\* C1: a message enqueued while the snapshot of drain cycle n is being
\* dispatched is not dispatched before every message of that snapshot: no
\* dispatched message was born in a cycle that still has messages to dispatch.
C1_SingleLevelBuffering ==
    \A i \in DOMAIN log : \A k \in DOMAIN stack :
       stack[k].cycle \in log[i].msg.born => Remaining(stack[k]) = <<>>

\* the messages a drain cycle has dispatched, in the order of their dispatch
RECURSIVE DispatchedIn(_, _)
DispatchedIn(c, n) ==
    IF n = 0 THEN <<>>
    ELSE IF log[n].cycle = c THEN Append(DispatchedIn(c, n - 1), log[n].msg)
         ELSE DispatchedIn(c, n - 1)

\* C11: every call of handle_messages dispatches each message of its
\* snapshot exactly once and the recursion stays bounded: no message is
\* dispatched twice, what an active call has dispatched and has still to
\* dispatch is its snapshot, and the nesting of the calls stays below
\* MaxDepth, whatever the handlers enqueue during dispatch.
C11_BoundedDrain ==
    /\ \A i, j \in DOMAIN log : i # j => log[i].msg.seq # log[j].msg.seq
    /\ \A k \in DOMAIN stack :
          DispatchedIn(stack[k].cycle, Len(log)) \o Remaining(stack[k]) = stack[k].snap
    /\ Len(stack) < MaxDepth

DrainOrder ==
    \A i, j \in DOMAIN log :
       (i < j /\ log[i].cycle = log[j].cycle) =>
          /\ QueueRank(log[i].msg.q) <= QueueRank(log[j].msg.q)
          /\ log[i].msg.q = log[j].msg.q => log[i].msg.seq < log[j].msg.seq

\* a resize message is handled before every render message for the same
\* window that was enqueued after it
ResizeBeforeRender ==
    \A i, j \in DOMAIN log :
       (/\ log[i].msg.kind = "HandleResize"
        /\ log[j].msg.kind = "Render"
        /\ log[i].msg.arg = log[j].msg.arg
        /\ log[i].msg.seq < log[j].msg.seq) => i < j

\* C10 (as stated): one drain dispatches in the order of the subsystem list
\* and FIFO within each queue, and a resize message enqueued before a render
\* message for the same window is handled before it.
C10_OrderAndResizeFirst == DrainOrder /\ ResizeBeforeRender

\* C10 (amended): one drain dispatches its snapshot in the order of the
\* subsystem list (EventHandler queue, renderer queue, entity queues) and
\* FIFO within each queue; a resize and a render message for the same window
\* are handled in enqueue order when they were taken from the same queue by
\* the same drain.
C10_DrainOrder ==
    /\ DrainOrder
    /\ \A i, j \in DOMAIN log :
          (/\ log[i].msg.kind = "HandleResize"
           /\ log[j].msg.kind = "Render"
           /\ log[i].msg.arg = log[j].msg.arg
           /\ log[i].msg.q = log[j].msg.q
           /\ log[i].cycle = log[j].cycle
           /\ log[i].msg.seq < log[j].msg.seq) => i < j

\* C10 witness: one drain has dispatched an EventHandler-queue message, then
\* a resize and then a render message for the same window from the renderer
\* queue.
C10_Witness ==
    \E i, j, k \in DOMAIN log :
       /\ i < j /\ j < k
       /\ log[i].cycle = log[j].cycle /\ log[j].cycle = log[k].cycle
       /\ log[i].msg.q = "EventHandler"
       /\ log[j].msg.q = "Renderer" /\ log[j].msg.kind = "HandleResize"
       /\ log[k].msg.q = "Renderer" /\ log[k].msg.kind = "Render"
       /\ log[j].msg.arg = log[k].msg.arg
       /\ log[i].msg.seq > log[k].msg.seq

InitTr ==
    /\ TrNew
    /\ registry = {}
    /\ BusNew
    /\ channel = <<>>
    /\ body = [e \in Entities |-> "None"]
    /\ PhysIdle

NextTr ==
    \/ TrTransform
    \/ TrSet
    \/ TrWithMut
    \/ TrWithMutMiss

SpecTr == InitTr /\ [][NextTr]_vars

(***************************************************************************)
(* Claims about the Transform Registry (checked under SpecTr)              *)
(***************************************************************************)
\* the nodes get can resolve
Resolvable(id) == Get(transforms, id) # None

\* the nodes whose parent chain ends at a root of this registry
RECURSIVE Rooted(_)
Rooted(id) ==
    /\ id \in DOMAIN transforms
    /\ \/ transforms[id].parent = None
       \/ Rooted(Unwrap(transforms[id].parent))

\* the parent chain of a rooted node, root first
RECURSIVE ChainOf(_)
ChainOf(id) ==
    IF transforms[id].parent = None THEN <<id>>
    ELSE Append(ChainOf(Unwrap(transforms[id].parent)), id)

\* the locals of the first k nodes of a chain composed left to right with the
\* registry's composition operator
RECURSIVE ComposeChain(_, _)
ComposeChain(chain, k) ==
    IF k = 1 THEN transforms[chain[1]].local
    ELSE Add(ComposeChain(chain, k - 1), transforms[chain[k]].local)

\* the composition rule as the specification states it: the parent's
\* rotation rotates the child's local translation
StatedCompose(P, L) ==
    [translation |-> VecAdd(QuatRotate(P.rotation, L.translation), P.translation),
     rotation    |-> QuatMul(P.rotation, L.rotation),
     scale       |-> VecAdd(P.scale, L.scale)]

\* C4: for every node with a resolvable parent, the global that get returns
\* is the stated composition of the parent's global P and the child's local
\* L: translation = P.rotation * L.translation + P.translation, rotation =
\* P.rotation * L.rotation, scale = P.scale + L.scale.
C4_StatedComposition ==
    \A id \in DOMAIN transforms :
       (transforms[id].parent # None /\ Resolvable(id)) =>
          Unwrap(Global(transforms, id)) =
             StatedCompose(Unwrap(Global(transforms, Unwrap(transforms[id].parent))),
                           transforms[id].local)

\* C5: for every resolvable node with a parent, the global that get returns
\* is BasicTransform::add of the parent's resolved global and the node's
\* local, and so the left-to-right composition of the locals of its whole
\* parent chain, in every registry state (before and after any set).
C5_ChainComposition ==
    \A id \in DOMAIN transforms :
       (transforms[id].parent # None /\ Rooted(id)) =>
          /\ Global(transforms, id) =
                Some(Add(Unwrap(Global(transforms, Unwrap(transforms[id].parent))),
                         transforms[id].local))
          /\ Global(transforms, id) =
                Some(ComposeChain(ChainOf(id), Len(ChainOf(id))))

\* C5 witness: a chain of three nodes whose root was just set to a value
\* other than the one it was created with, and whose leaf resolves.
C5_Witness ==
    \E id \in DOMAIN transforms :
       /\ Rooted(id)
       /\ Resolvable(id)
       /\ Len(ChainOf(id)) = 3
       /\ lastOp.kind = "set"
       /\ lastOp.id = ChainOf(id)[1]
       /\ transforms[lastOp.id].local # transforms[lastOp.id].global

\* C6: after with_mut(f) returns, the local stored in the registry for the
\* handle's id is f applied to the local stored before the call.
C6_WithMutWritesBack ==
    (lastOp.kind = "with_mut" /\ lastOp.res = "Some") =>
       Local(transforms, lastOp.id) = Some(ApplyMutator(lastOp.f, Unwrap(lastOp.before)))

\* the node of id and the nodes its parent links lead to
RECURSIVE AncestorsOf(_, _)
AncestorsOf(trs, id) ==
    IF id \notin DOMAIN trs THEN {}
    ELSE IF trs[id].parent = None THEN {id}
         ELSE {id} \cup AncestorsOf(trs, Unwrap(trs[id].parent))

\* a value no caller passes and no composition of the callers' values gives
Elsewhere == BasicTransform(<<9, 9, 9>>, QuatY90, <<5, 5, 5>>)

\* the registry with everything but the locals and the parent links of id
\* and its ancestors replaced: the stored global fields, and the other nodes
OnlyChain(trs, id) ==
    [i \in DOMAIN trs |->
        IF i \in AncestorsOf(trs, id)
        THEN [parent |-> trs[i].parent, local |-> trs[i].local, global |-> Elsewhere]
        ELSE [parent |-> None, local |-> Elsewhere, global |-> Elsewhere]]

\* the locals of the first k nodes of a chain composed left to right, with t
\* in the place of the local of node a
RECURSIVE FoldWith(_, _, _, _, _)
FoldWith(trs, chain, k, a, t) ==
    LET l == IF chain[k] = a THEN t ELSE trs[chain[k]].local
    IN  IF k = 1 THEN l ELSE Add(FoldWith(trs, chain, k - 1, a, t), l)

\* C27: the global read for an id depends on nothing but the current locals
\* and parent links of the id and of its ancestors (the same read on a
\* registry that agrees on those and differs everywhere else gives the same
\* answer); a step that changes none of them (another read, a with_mut, a
\* set elsewhere, a new node) leaves the answer as it was; and after a set
\* on the node or on an ancestor the next read is the composition of the
\* chain with the value just set, nothing else having been called.
C27_GlobalFromCurrentChain ==
    /\ [](\A id \in DOMAIN transforms \cup {UnknownTransformId} :
             /\ Global(transforms, id) = Global(OnlyChain(transforms, id), id)
             /\ (/\ id \in DOMAIN transforms
                 /\ Rooted(id)
                 /\ lastOp.kind = "set" /\ lastOp.res = "Some"
                 /\ lastOp.id \in AncestorsOf(transforms, id))
                => Global(transforms, id) =
                      Some(FoldWith(transforms, ChainOf(id), Len(ChainOf(id)),
                                    lastOp.id, Unwrap(lastOp.arg))))
    /\ [][\A id \in DOMAIN transforms :
             (\A a \in AncestorsOf(transforms, id) :
                 /\ transforms'[a].local = transforms[a].local
                 /\ transforms'[a].parent = transforms[a].parent)
             => Global(transforms', id) = Global(transforms, id)]_vars

\* a chain of three nodes whose middle node was just set to a value other
\* than the one it was created with; the leaf resolves
C27_Witness ==
    \E id \in DOMAIN transforms :
       /\ Rooted(id)
       /\ Len(ChainOf(id)) = 3
       /\ lastOp.kind = "set" /\ lastOp.res = "Some"
       /\ lastOp.id = ChainOf(id)[2]
       /\ transforms[lastOp.id].local = Unwrap(lastOp.arg)
       /\ Global(transforms, id) # None
       /\ \E i \in DOMAIN transforms : transforms[i].global # Unwrap(Global(transforms, i))

\* C28: in every reachable state of the registry, the global read for a
\* transform that has no parent equals its local, also right after set on
\* it.
C28_RootGlobalIsLocal ==
    \A id \in DOMAIN transforms :
       transforms[id].parent = None =>
          /\ Global(transforms, id) = Some(transforms[id].local)
          /\ Global(transforms, id) = Local(transforms, id)

\* a transform without a parent was just set to a value other than the one
\* it was created with, and another transform has it as parent
C28_Witness ==
    /\ lastOp.kind = "set" /\ lastOp.res = "Some"
    /\ lastOp.id \in DOMAIN transforms
    /\ transforms[lastOp.id].parent = None
    /\ transforms[lastOp.id].local = Unwrap(lastOp.arg)
    /\ transforms[lastOp.id].global # transforms[lastOp.id].local
    /\ \E c \in DOMAIN transforms : transforms[c].parent = Some(lastOp.id)

\* C29: set(id, t) on an id the registry holds makes the local of id equal
\* to t (the stored value, and what the handle's local reads when the node
\* resolves) and changes nothing else: the parent link of id and the local
\* and the parent link of every other transform are as before, and no node
\* is added or removed.
C29_SetWritesOneLocal ==
    [][(lastOp'.kind = "set" /\ lastOp'.id \in DOMAIN transforms) =>
          /\ lastOp'.res = "Some"
          /\ DOMAIN transforms' = DOMAIN transforms
          /\ transforms'[lastOp'.id].local = Unwrap(lastOp'.arg)
          /\ Get(transforms', lastOp'.id) # None
                => Local(transforms', lastOp'.id) = lastOp'.arg
          /\ transforms'[lastOp'.id].parent = transforms[lastOp'.id].parent
          /\ \A j \in DOMAIN transforms \ {lastOp'.id} :
                /\ transforms'[j].local = transforms[j].local
                /\ transforms'[j].parent = transforms[j].parent]_vars

\* a node with a parent and a child was just set to a value other than the
\* local it had before, which is other than the local of its parent
C29_Witness ==
    /\ lastOp.kind = "set" /\ lastOp.res = "Some"
    /\ lastOp.id \in DOMAIN transforms
    /\ transforms[lastOp.id].parent # None
    /\ Get(transforms, lastOp.id) # None
    /\ transforms[lastOp.id].local = Unwrap(lastOp.arg)
    /\ transforms[lastOp.id].local # transforms[lastOp.id].global
    /\ transforms[Unwrap(transforms[lastOp.id].parent)].local # Unwrap(lastOp.arg)
    /\ \E c \in DOMAIN transforms : transforms[c].parent = Some(lastOp.id)

\* C30: every operation of the registry and of a handle (get, set, local,
\* global, with_mut) on an id that is not in the registry, or whose parent
\* chain names an id that is not in the registry, returns absent, does not
\* panic and leaves the registry unchanged.
C30_AbsentOnMiss ==
    /\ [](\A id \in DOMAIN transforms \cup {UnknownTransformId} :
             ~Rooted(id) =>
                /\ Get(transforms, id) = None
                /\ Local(transforms, id) = None
                /\ Global(transforms, id) = None)
    /\ [][(/\ lastOp'.kind \in {"set", "with_mut"}
           /\ lastOp' # lastOp \/ transforms' # transforms
           /\ ~Rooted(lastOp'.id))
          => /\ lastOp'.res = "None"
             /\ transforms' = transforms]_vars

(***************************************************************************)
(* Physics bridge: PhysicsEngine, RapierEngine::new, RapierEngine::step    *)
(***************************************************************************)
Threads == {"main", "physics"}

\* the entities in the order main() creates them, and the id of the node
\* that an entity's Transform component names
EntityList == <<"camera", "lantern", "avocado">>

TransformOf(e) == CHOOSE i \in DOMAIN EntityList : EntityList[i] = e

\* the nodes the constructors of the entities create: no parent
EntityNode(bt) == [parent |-> None, local |-> bt, global |-> bt]

EntityTransforms ==
    <<EntityNode(BasicTransform(<<5, 7, -5>>, QuatX90, <<1, 1, 1>>)),
      EntityNode(BasicTransform(<<0, 3, 0>>, QuatIdentity, <<1, 1, 1>>)),
      EntityNode(BasicTransform(<<0, 1, 1>>, QuatIdentity, <<1, 1, 1>>))>>

ZeroVec == <<0, 0, 0>>

\* the rigid body inside a Pending state: RigidBodyBuilder::dynamic().build()
PendingBody == [pos |-> ZeroVec, rot |-> QuatIdentity, force |-> ZeroVec]

\* the gravity Engine::new passes, per step
Gravity == <<0, -1, 0>>

\* Entity::transform(): the entity's current transform
EntityTransform(trs, e) == Unwrap(Local(trs, TransformOf(e)))

\* Entity::transform_mut(): assignments to the position and to the rotation
\* of the entity's transform
TransformMutPosition(trs, e, v) ==
    SetLocal(trs, TransformOf(e), [EntityTransform(trs, e) EXCEPT !.translation = v])

TransformMutRotation(trs, e, q) ==
    SetLocal(trs, TransformOf(e), [EntityTransform(trs, e) EXCEPT !.rotation = q])

\* a mutant of the seeding: the body keeps the pose of its builder
Unseeded(rb, t) == rb

\* rigid_body.set_position((transform.position, transform.rotation))
Seeded(rb, t) == [rb EXCEPT !.pos = t.translation, !.rot = t.rotation]

\* physics_pipeline.step: every body falls and moves by the force it was
\* given; the forces are used up
PipelineStep(set) ==
    [h \in DOMAIN set |->
        [pos   |-> VecAdd(VecAdd(set[h].pos, Gravity), set[h].force),
         rot   |-> set[h].rot,
         force |-> ZeroVec]]

\* the commands the render thread sends
PhysCommands ==
    {[kind |-> "ApplyForce", id |-> "lantern"],
     [kind |-> "SetRotation", id |-> "lantern"],
     [kind |-> "Enable", id |-> "lantern"],
     [kind |-> "ApplyForce", id |-> "avocado"]}

\* a mutant of handle_command: Enable is taken for a command with an arm
ImplementedAndEnable == {"ApplyForce", "SetRotation", "Enable"}

\* the commands handle_command has an arm for
Implemented == {"ApplyForce", "SetRotation"}

\* the commands of PhysicsCommand that fall to the wildcard arm
UnimplementedKinds == {"Enable", "Disable", "SetDensity"}

\* the closures handed to run_on_rb
ApplyOp(kind, rb) ==
    IF kind = "ApplyForce"
    THEN [rb EXCEPT !.force = VecAdd(rb.force, <<0, 0, 1>>)]
    ELSE [rb EXCEPT !.rot = QuatY90]

\* the Result of run_on_rb for an entity of the registry
RunOnRbResult(set, state, e) ==
    CASE state = "None"    -> "entity has no physics body component"
      [] state = "Pending" -> "cannot mutate pending body"
      [] state = "Removed" -> "rigid body has been removed"
      [] state = "Active" /\ e \notin DOMAIN set -> "rigid body handle leads to no rigid body"
      [] OTHER -> "ok"

\* the Result of handle_command
HandleCommandResult(reg, set, states, c) ==
    IF c.kind \notin Implemented THEN "i haven't done this physics command yet lol"
    ELSE IF c.id \notin reg THEN "no entity with provided id found"
    ELSE RunOnRbResult(set, states[c.id], c.id)

\* a mutant of run_on_rb: the state of the body is not matched
RunOnRbAnyState(set, state, e, kind) ==
    IF e \in DOMAIN set THEN [set EXCEPT ![e] = ApplyOp(kind, set[e])] ELSE set

\* a mutant of run_on_rb: the closure runs on every rigid body
RunOnEveryRb(set, state, e, kind) ==
    IF state = "Active" /\ e \in DOMAIN set
    THEN [h \in DOMAIN set |-> ApplyOp(kind, set[h])]
    ELSE set

\* run_on_rb under the entity's lock: the rigid body set afterwards
RunOnRb(set, state, e, kind) ==
    IF state = "Active" /\ e \in DOMAIN set
    THEN [set EXCEPT ![e] = ApplyOp(kind, set[e])]
    ELSE set

\* a mutant of the collection: one command per step
CollectedFirst(ch) == IF ch = <<>> THEN <<>> ELSE <<Head(ch)>>

\* command_receiver.try_iter().collect()
Collected(ch) == ch

\* the publish loop's match on the body state: the states it writes for and
\* the rigid body it reads
Publishes(state) == state \in {"Active", "Pending"}

PublishedBody(set, state, e) == IF state = "Active" THEN set[e] ELSE PendingBody

\* a mutant of the position assignment: the transform keeps its position
KeptPosition(t, rb) == t.translation

\* the position and the rotation the publish loop assigns
PublishedPosition(t, rb) == rb.pos

PublishedRotation(t, rb) == rb.rot

\* a mutant of the end of a publish iteration: the guard is kept
GuardKept(locks, e) == locks

\* the entity's MutexGuard is dropped
GuardDropped(locks, e) == [locks EXCEPT ![e] = "none"]

Phase(ev, x) == [ev |-> ev, x |-> x]

\* a command the step has handled, with the Result of handle_command
Handled(c, r) == [ev |-> "command", x |-> c, r |-> r]

mainVars == <<mpc, mainOps, seen>>

stepVars == <<pcmds, psnap, stepNo, phaseLog, atCollect>>

\* a mutant of the construction: the bodies are made Active and no rigid body
\* is inserted
PhysEngineNewNoInsert ==
    /\ ppc = "unbuilt" /\ mpc = Idle
    /\ rbSet' = << >>
    /\ body' = [e \in Entities |->
                  IF e \in registry /\ body[e] = "Pending" THEN "Active" ELSE body[e]]
    /\ ppc' = "built"
    /\ UNCHANGED <<published, elock, mapLock, trLock, stepVars, mainVars,
                   registry, channel, trVars, busVars, sideVars>>

\* PhysicsEngine::new (RapierEngine::new), called by Engine::new
PhysEngineNew ==
    /\ ppc = "unbuilt" /\ mpc = Idle
    /\ LET pend == {e \in registry : body[e] = "Pending"} IN
          /\ rbSet' = [e \in pend |-> Seeded(PendingBody, EntityTransform(transforms, e))]
          /\ body' = [e \in Entities |-> IF e \in pend THEN "Active" ELSE body[e]]
    /\ ppc' = "built"
    /\ UNCHANGED <<published, elock, mapLock, trLock, stepVars, mainVars,
                   registry, channel, trVars, busVars, sideVars>>

\* PhysicsEngine::start_physics: the thread is spawned
StartPhysics ==
    /\ ppc = "built"
    /\ ppc' = "sleep"
    /\ UNCHANGED <<body, rbSet, published, elock, mapLock, trLock, stepVars,
                   mainVars, registry, channel, trVars, busVars, sideVars>>

\* a mutant of the collection: the receiver waits for a command
IterWaits(ch) == ch # <<>>

\* try_iter() yields what the channel holds and never waits
TryIterReturns(ch) == TRUE

\* step: the commands in the channel are collected
PCollect ==
    /\ ppc = "sleep" /\ stepNo < MaxSteps
    /\ TryIterReturns(channel)
    /\ pcmds' = Collected(channel)
    /\ channel' = SubSeq(channel, Len(Collected(channel)) + 1, Len(channel))
    /\ atCollect' = channel
    /\ phaseLog' = <<>>
    /\ stepNo' = stepNo + 1
    /\ ppc' = "apply"
    /\ UNCHANGED <<body, rbSet, published, elock, mapLock, trLock, psnap,
                   mainVars, registry, trVars, busVars, sideVars>>

\* handle_command fails without a lock: no arm for the command, or no entity
\* with the id
PApplyFail ==
    /\ ppc = "apply" /\ pcmds # <<>>
    /\ \/ Head(pcmds).kind \notin Implemented
       \/ mapLock = "none" /\ Head(pcmds).id \notin registry
    /\ pcmds' = Tail(pcmds)
    /\ phaseLog' = Append(phaseLog,
          Handled(Head(pcmds), HandleCommandResult(registry, rbSet, body, Head(pcmds))))
    /\ UNCHANGED <<body, rbSet, published, elock, mapLock, trLock, ppc, psnap,
                   stepNo, atCollect, mainVars, registry, channel, trVars, busVars, sideVars>>

\* run_on_rb: the entity is looked up and locked
PApplyLock ==
    /\ ppc = "apply" /\ pcmds # <<>>
    /\ Head(pcmds).kind \in Implemented
    /\ mapLock = "none" /\ Head(pcmds).id \in registry
    /\ elock[Head(pcmds).id] = "none"
    /\ elock' = [elock EXCEPT ![Head(pcmds).id] = "physics"]
    /\ ppc' = "applying"
    /\ UNCHANGED <<body, rbSet, published, mapLock, trLock, stepVars, mainVars,
                   registry, channel, trVars, busVars, sideVars>>

\* run_on_rb: the match on the body state, the closure, the guard dropped
PApplyOp ==
    /\ ppc = "applying"
    /\ rbSet' = RunOnRb(rbSet, body[Head(pcmds).id], Head(pcmds).id, Head(pcmds).kind)
    /\ elock' = GuardDropped(elock, Head(pcmds).id)
    /\ pcmds' = Tail(pcmds)
    /\ phaseLog' = Append(phaseLog,
          Handled(Head(pcmds), HandleCommandResult(registry, rbSet, body, Head(pcmds))))
    /\ ppc' = "apply"
    /\ UNCHANGED <<body, published, mapLock, trLock, psnap, stepNo, atCollect,
                   mainVars, registry, channel, trVars, busVars, sideVars>>

\* step: the simulation advances
PAdvance ==
    /\ ppc = "apply" /\ pcmds = <<>>
    /\ rbSet' = PipelineStep(rbSet)
    /\ phaseLog' = Append(phaseLog, Phase("advance", NoEntity))
    /\ ppc' = "snapshot"
    /\ UNCHANGED <<body, published, elock, mapLock, trLock, pcmds, psnap, stepNo,
                   atCollect, mainVars, registry, channel, trVars, busVars, sideVars>>

\* step: the publish loop takes a snapshot of the registry's map
PSnapshot ==
    /\ ppc = "snapshot" /\ mapLock = "none"
    /\ psnap' \in Orders(registry)
    /\ ppc' = "visit"
    /\ UNCHANGED <<body, rbSet, published, elock, mapLock, trLock, pcmds, stepNo,
                   phaseLog, atCollect, mainVars, registry, channel, trVars, busVars, sideVars>>

\* publish loop: the next entity is locked and its body state matched
PVisitLock ==
    /\ ppc = "visit" /\ psnap # <<>>
    /\ elock[Head(psnap)] = "none"
    /\ elock' = [elock EXCEPT ![Head(psnap)] = "physics"]
    /\ ppc' = IF Publishes(body[Head(psnap)]) THEN "pos" ELSE "skip"
    /\ UNCHANGED <<body, rbSet, published, mapLock, trLock, stepVars, mainVars,
                   registry, channel, trVars, busVars, sideVars>>

\* publish loop: continue (no body, or a Removed one)
PSkip ==
    /\ ppc = "skip"
    /\ elock' = GuardDropped(elock, Head(psnap))
    /\ psnap' = Tail(psnap)
    /\ ppc' = "visit"
    /\ UNCHANGED <<body, rbSet, published, mapLock, trLock, pcmds, stepNo,
                   phaseLog, atCollect, mainVars, registry, channel, trVars, busVars, sideVars>>

\* publish loop: the transform registry is locked for one assignment
PAcquireTr ==
    /\ ppc \in {"pos", "rot"} /\ trLock = "none"
    /\ trLock' = "physics"
    /\ ppc' = IF ppc = "pos" THEN "posw" ELSE "rotw"
    /\ UNCHANGED <<body, rbSet, published, elock, mapLock, stepVars, mainVars,
                   registry, channel, trVars, busVars, sideVars>>

\* publish loop: entity.transform_mut().position = ...
PWritePos ==
    /\ ppc = "posw"
    /\ LET e  == Head(psnap)
           rb == PublishedBody(rbSet, body[e], e)
       IN  /\ transforms' = TransformMutPosition(transforms, e,
                               PublishedPosition(EntityTransform(transforms, e), rb))
           /\ published' = [published EXCEPT ![e].pos = stepNo]
           /\ phaseLog' = Append(phaseLog, Phase("publish", e))
    /\ trLock' = "none"
    /\ ppc' = "rot"
    /\ UNCHANGED <<body, rbSet, elock, mapLock, pcmds, psnap, stepNo, atCollect,
                   mainVars, registry, channel, lastOp, busVars, sideVars>>

\* publish loop: entity.transform_mut().rotation = ..., end of the iteration
PWriteRot ==
    /\ ppc = "rotw"
    /\ LET e  == Head(psnap)
           rb == PublishedBody(rbSet, body[e], e)
       IN  /\ transforms' = TransformMutRotation(transforms, e,
                               PublishedRotation(EntityTransform(transforms, e), rb))
           /\ published' = [published EXCEPT ![e].rot = stepNo]
           /\ elock' = GuardDropped(elock, e)
    /\ trLock' = "none"
    /\ psnap' = Tail(psnap)
    /\ ppc' = "visit"
    /\ UNCHANGED <<body, rbSet, mapLock, pcmds, stepNo, phaseLog, atCollect,
                   mainVars, registry, channel, lastOp, busVars, sideVars>>

\* step returns Ok(()); the thread sleeps the rest of the interval
PStepDone ==
    /\ ppc = "visit" /\ psnap = <<>>
    /\ ppc' = "sleep"
    /\ UNCHANGED <<body, rbSet, published, elock, mapLock, trLock, stepVars,
                   mainVars, registry, channel, trVars, busVars, sideVars>>

(***************************************************************************)
(* The render/orchestrator thread                                          *)
(***************************************************************************)
\* what the thread does to one entity under the entity's lock: input()
\* (EventHandler::send_event), the renderer's read of the global transform,
\* components_mut().add(PhysicsBody::new(..))
MainSections == {"input", "render", "add_body"}

At(op, e, stage) == [op |-> op, e |-> e, stage |-> stage]

\* the command as the channel carries it: n tells the sends apart (history)
Sent(c, n) == [kind |-> c.kind, id |-> c.id, n |-> n]

\* PhysicsEngine::send_command
MSend ==
    /\ mpc = Idle /\ mainOps < MaxMainOps /\ ppc # "unbuilt"
    /\ SendReturns(channel)
    /\ \E c \in PhysCommands : channel' = Append(channel, Sent(c, mainOps + 1))
    /\ mainOps' = mainOps + 1
    /\ UNCHANGED <<body, rbSet, published, elock, mapLock, trLock, ppc, stepVars,
                   mpc, seen, registry, trVars, busVars, sideVars>>

\* an entity of the registry is locked
MLock ==
    /\ mpc = Idle /\ mainOps < MaxMainOps /\ mapLock = "none"
    /\ \E e \in registry : \E op \in MainSections :
          /\ op = "add_body" => e \in TestObjs
          /\ elock[e] = "none"
          /\ elock' = [elock EXCEPT ![e] = "main"]
          /\ mpc' = At(op, e, "locked")
    /\ mainOps' = mainOps + 1
    /\ UNCHANGED <<body, rbSet, published, mapLock, trLock, ppc, stepVars, seen,
                   registry, channel, trVars, busVars, sideVars>>

\* the transform registry is locked through the entity's Transform handle
MAcquireTr ==
    /\ mpc.stage = "locked" /\ mpc.op \in {"input", "render"}
    /\ trLock = "none"
    /\ trLock' = "main"
    /\ mpc' = [mpc EXCEPT !.stage = "tr"]
    /\ UNCHANGED <<body, rbSet, published, elock, mapLock, ppc, stepVars, mainOps,
                   seen, registry, channel, trVars, busVars, sideVars>>

\* TestObj::input: with_mut on the entity's transform
MInput ==
    /\ mpc.stage = "tr" /\ mpc.op = "input"
    /\ \E f \in Mutators :
          transforms' = WithMutRegistry(transforms, TransformOf(mpc.e), f)
    /\ trLock' = "none"
    /\ elock' = GuardDropped(elock, mpc.e)
    /\ mpc' = Idle
    /\ UNCHANGED <<body, rbSet, published, mapLock, ppc, stepVars, mainOps, seen,
                   registry, channel, lastOp, busVars, sideVars>>

\* render_internal: the global transform is read through the handle
MRender ==
    /\ mpc.stage = "tr" /\ mpc.op = "render"
    /\ seen' = Some([e |-> mpc.e, pos |-> published[mpc.e].pos,
                     rot |-> published[mpc.e].rot])
    /\ trLock' = "none"
    /\ elock' = GuardDropped(elock, mpc.e)
    /\ mpc' = Idle
    /\ UNCHANGED <<body, rbSet, published, mapLock, ppc, stepVars, mainOps,
                   registry, channel, trVars, busVars, sideVars>>

\* ComponentSet::add of a new PhysicsBody: the entry of the type is replaced
MAddBody ==
    /\ mpc.stage = "locked" /\ mpc.op = "add_body"
    /\ body' = [body EXCEPT ![mpc.e] = "Pending"]
    /\ elock' = GuardDropped(elock, mpc.e)
    /\ mpc' = Idle
    /\ UNCHANGED <<rbSet, published, mapLock, trLock, ppc, stepVars, mainOps, seen,
                   registry, channel, trVars, busVars, sideVars>>

\* EntityRegistry::add: entity.lock() for set_context
MAddContext ==
    /\ mpc = Idle /\ mainOps < MaxMainOps
    /\ \E e \in Entities \ registry :
          /\ elock[e] = "none"
          /\ elock' = [elock EXCEPT ![e] = "main"]
          /\ mpc' = At("add", e, "context")
    /\ mainOps' = mainOps + 1
    /\ UNCHANGED <<body, rbSet, published, mapLock, trLock, ppc, stepVars, seen,
                   registry, channel, trVars, busVars, sideVars>>

\* EntityRegistry::add: the guard is dropped, entities.write()
MAddMap ==
    /\ mpc.stage = "context" /\ mapLock = "none"
    /\ elock' = GuardDropped(elock, mpc.e)
    /\ mapLock' = "main"
    /\ mpc' = [mpc EXCEPT !.stage = "map"]
    /\ UNCHANGED <<body, rbSet, published, trLock, ppc, stepVars, mainOps, seen,
                   registry, channel, trVars, busVars, sideVars>>

\* EntityRegistry::add: entity.id() locks the entity under the map's lock
MAddId ==
    /\ mpc.stage = "map" /\ elock[mpc.e] = "none"
    /\ elock' = [elock EXCEPT ![mpc.e] = "main"]
    /\ mpc' = [mpc EXCEPT !.stage = "id"]
    /\ UNCHANGED <<body, rbSet, published, mapLock, trLock, ppc, stepVars, mainOps,
                   seen, registry, channel, trVars, busVars, sideVars>>

\* EntityRegistry::add: insert, both guards dropped
MAddInsert ==
    /\ mpc.stage = "id"
    /\ registry' = registry \cup {mpc.e}
    /\ elock' = GuardDropped(elock, mpc.e)
    /\ mapLock' = "none"
    /\ mpc' = Idle
    /\ UNCHANGED <<body, rbSet, published, trLock, ppc, stepVars, mainOps, seen,
                   channel, trVars, busVars, sideVars>>

\* main() has built the entities and registered the camera and the lantern;
\* the avocado, with a Pending or a Removed body, is registered too, as in
\* main(), or is left to a later EntityRegistry::add, before or after the
\* engine is constructed
InitPhys ==
    /\ transforms = EntityTransforms
    /\ lastOp = Op("new", UnknownTransformId, None, "")
    /\ registry \in {{"camera", "lantern"}, {"camera", "lantern", "avocado"}}
    /\ BusNew
    /\ channel = <<>>
    /\ body \in {[camera |-> "None", lantern |-> "Pending", avocado |-> b] :
                   b \in {"Pending", "Removed"}}
    /\ PhysIdle

NextPhys ==
    \/ PhysEngineNew
    \/ StartPhysics
    \/ PCollect
    \/ PApplyFail
    \/ PApplyLock
    \/ PApplyOp
    \/ PAdvance
    \/ PSnapshot
    \/ PVisitLock
    \/ PSkip
    \/ PAcquireTr
    \/ PWritePos
    \/ PWriteRot
    \/ PStepDone
    \/ MSend
    \/ MLock
    \/ MAcquireTr
    \/ MInput
    \/ MRender
    \/ MAddBody
    \/ MAddContext
    \/ MAddMap
    \/ MAddId
    \/ MAddInsert

SpecPhys == InitPhys /\ [][NextPhys]_vars

\* the steps of the spawned thread: loop { step; sleep }
PhysicsThread ==
    \/ PCollect \/ PApplyFail \/ PApplyLock \/ PApplyOp \/ PAdvance \/ PSnapshot
    \/ PVisitLock \/ PSkip \/ PAcquireTr \/ PWritePos \/ PWriteRot \/ PStepDone

\* the steps of the render thread that end in the release of a lock it
\* holds
MainInSection ==
    \/ MAcquireTr \/ MInput \/ MRender \/ MAddBody \/ MAddMap \/ MAddId \/ MAddInsert

\* both threads are scheduled: the physics thread takes its next step when
\* it can, the render thread leaves the sections it has entered; whether the
\* render thread sends a command or begins a section is left open
\* the run in which the avocado, with a Pending body, is registered after
\* the engine was constructed, if at all
InitPhysFair ==
    /\ transforms = EntityTransforms
    /\ lastOp = Op("new", UnknownTransformId, None, "")
    /\ registry = {"camera", "lantern"}
    /\ BusNew
    /\ channel = <<>>
    /\ body = [camera |-> "None", lantern |-> "Pending", avocado |-> "Pending"]
    /\ PhysIdle

SpecPhysFair ==
    InitPhysFair /\ [][NextPhys]_vars /\ WF_vars(PhysicsThread) /\ WF_vars(MainInSection)

(***************************************************************************)
(* The clock of the physics loop: PhysicsEngine::new, start_physics        *)
(***************************************************************************)
\* the interval of the loop, in milliseconds
StepInterval == 10

\* Instant::now().duration_since(last_physics_step_mutex.get_cloned())
Delta(c) == c.now - c.lastPhysicsStep

\* a mutant of the pacing: the subtraction is not checked
SleepUnchecked(stepTime) == StepInterval - stepTime

\* 10_u64.checked_sub(step_time as u64).unwrap_or(0)
SleepMillis(stepTime) == IF StepInterval >= stepTime THEN StepInterval - stepTime ELSE 0

clockOthers == <<registry, channel, trVars, busVars, body, rbSet, published, elock,
                 mapLock, trLock, ppc, stepVars, mainVars, ereg, walk, ctx, cset, flat,
                 drain, share>>

\* time passes before the engine is built, before the thread is started and
\* while a step runs
ClockTick ==
    /\ clock.pc \in {"unbuilt", "built", "step"}
    /\ clock.now < MaxClock
    /\ clock' = [clock EXCEPT !.now = @ + 1]
    /\ UNCHANGED clockOthers

\* PhysicsEngine::new: physics_engine: Some(rapier_engine),
\* last_physics_step: Arc::new(Mutex::new(Instant::now()))
ClockNew ==
    /\ clock.pc = "unbuilt"
    /\ clock' = [clock EXCEPT !.pc = "built", !.lastPhysicsStep = clock.now,
                              !.physicsEngine = Some("rapier_engine")]
    /\ UNCHANGED clockOthers

\* a mutant of the take: the engine stays in the Option
Kept(opt) == opt

\* self.physics_engine.take(): what is left in the Option
Taken(opt) == None

\* start_physics with the engine in place: it is moved into the closure of
\* the spawned thread, which enters the loop
ClockStart ==
    /\ clock.pc = "built"
    /\ clock.physicsEngine # None
    /\ clock' = [clock EXCEPT !.pc = "loop",
                              !.physicsEngine = Taken(clock.physicsEngine),
                              !.threads = @ + 1, !.started = "ok"]
    /\ UNCHANGED clockOthers

\* start_physics again, while the thread runs: with the Option empty it is
\* Err("no physics engine") and nothing is spawned; a second thread could be
\* spawned only with an engine still in the Option
ClockStartAgain ==
    /\ clock.pc \in {"loop", "step"}
    /\ clock.threads < MaxThreads
    /\ clock' = IF clock.physicsEngine = None
                THEN [clock EXCEPT !.started = "no physics engine"]
                ELSE [clock EXCEPT !.physicsEngine = Taken(clock.physicsEngine),
                                   !.threads = @ + 1, !.started = "ok"]
    /\ UNCHANGED clockOthers

\* the loop: before_step and delta are taken, step(delta) is called
ClockStep ==
    /\ clock.pc = "loop"
    /\ clock' = [clock EXCEPT !.pc = "step", !.beforeStep = clock.now,
                              !.prevStep = clock.beforeStep, !.delta = Delta(clock),
                              !.k = @ + 1]
    /\ UNCHANGED clockOthers

\* the loop: step has returned, the thread sleeps the rest of the interval
ClockSleep ==
    /\ clock.pc = "step"
    /\ clock.now + SleepMillis(clock.now - clock.beforeStep) <= MaxClock
    /\ clock' = [clock EXCEPT !.pc = "loop",
                              !.now = @ + SleepMillis(clock.now - clock.beforeStep),
                              !.stepTime = clock.now - clock.beforeStep,
                              !.slept = SleepMillis(clock.now - clock.beforeStep)]
    /\ UNCHANGED clockOthers

InitClock == InitPhys

NextClock ==
    \/ ClockTick
    \/ ClockNew
    \/ ClockStart
    \/ ClockStartAgain
    \/ ClockStep
    \/ ClockSleep

SpecClock == InitClock /\ [][NextClock]_vars

\* C20: the delta passed to the k-th step (k > 1) is the time that has
\* passed since the step before it: the time between the two instants at
\* which the loop took its clock reading for the two steps.
C20_DeltaSincePreviousStep ==
    clock.k >= 2 => clock.delta = clock.beforeStep - clock.prevStep

\* C22: at most one physics thread exists: the start_physics that spawns it
\* leaves no engine in the PhysicsEngine (the world is owned by the thread,
\* the render thread keeps the command sender only), and a start_physics
\* that finds no engine returns the error and spawns nothing.
C22_OnePhysicsThread ==
    [][/\ clock'.threads <= 1
       /\ clock'.threads = 1 => clock'.physicsEngine = None
       /\ (clock'.threads > clock.threads) =>
             (clock.physicsEngine # None /\ clock'.started = "ok")
       /\ (clock.pc # "unbuilt" /\ clock.physicsEngine = None
             /\ clock'.started # clock.started) =>
             (clock'.started = "no physics engine" /\ clock'.threads = clock.threads)]_vars

\* C22 witness: start_physics was called again while the one thread was in
\* a step, and returned the error.
C22_Witness ==
    /\ clock.pc = "step"
    /\ clock.threads = 1
    /\ clock.physicsEngine = None
    /\ clock.started = "no physics engine"

\* C21: after a step that cost c whole milliseconds the loop sleeps 10 - c
\* milliseconds when c is at most 10 and 0 milliseconds when c is more than
\* 10; the sleep is never negative (the clock never goes back over a sleep).
C21_Pacing ==
    [][(clock.pc = "step" /\ clock'.pc = "loop") =>
          /\ clock'.stepTime = clock.now - clock.beforeStep
          /\ clock'.stepTime <= 10 => clock'.slept = 10 - clock'.stepTime
          /\ clock'.stepTime > 10 => clock'.slept = 0
          /\ clock'.slept >= 0
          /\ clock'.now = clock.now + clock'.slept]_vars

\* C21 witness: a step that cost more than 10 ms was followed by no sleep,
\* after an earlier step that cost less.
C21_Witness ==
    /\ clock.pc = "loop"
    /\ clock.k >= 2
    /\ clock.stepTime > 10
    /\ clock.slept = 0
    /\ clock.prevStep < clock.beforeStep - 10

(***************************************************************************)
(* Claims about the physics bridge (checked under SpecPhys)                *)
(***************************************************************************)
\* C2: within every physics step the commands that were in the channel when
\* the step began are applied, in order, then the simulation advances once,
\* then transforms are published; nothing is applied after the advance and
\* nothing is published before it, and a completed step has advanced.
C2_PhaseOrder ==
    /\ \A i \in DOMAIN phaseLog :
          /\ i <= Len(atCollect) =>
                (phaseLog[i].ev = "command" /\ phaseLog[i].x = atCollect[i])
          /\ i = Len(atCollect) + 1 => phaseLog[i].ev = "advance"
          /\ i > Len(atCollect) + 1 => phaseLog[i].ev = "publish"
    /\ (ppc \in {"snapshot", "visit", "skip", "pos", "posw", "rot", "rotw"}
          \/ (ppc = "sleep" /\ stepNo > 0)) => Len(phaseLog) > Len(atCollect)

\* C2 witness: a step that collected two commands has completed and has
\* published a transform.
C2_Witness ==
    /\ ppc = "sleep"
    /\ Len(atCollect) = 2
    /\ \E i \in DOMAIN phaseLog : phaseLog[i].ev = "publish"

\* C3: in every step of every execution an Active body stays Active or
\* becomes Removed (it is never Pending again), and a Removed body stays
\* Removed.
C3_BodyStateMonotone ==
    [][\A e \in Entities :
          /\ body[e] = "Active" => body'[e] \in {"Active", "Removed"}
          /\ body[e] = "Removed" => body'[e] = "Removed"]_vars

C8_PublishOnlyActive ==
    [][/\ \A e \in Entities :
             body[e] # "Active" =>
                transforms'[TransformOf(e)] = transforms[TransformOf(e)]
       /\ (ppc' = "sleep" /\ stepNo' > 0) =>
             \A e \in registry :
                body'[e] = "Active" =>
                   published'[e] = [pos |-> stepNo', rot |-> stepNo']]_vars

\* the locks a thread holds other than the registry map's
HeldBy(t) ==
    {e \in Entities : elock[e] = t} \cup (IF trLock = t THEN {"transforms"} ELSE {})

\* no entity lock is taken and no channel operation is made by a thread that
\* holds another entity's lock or the transform registry's lock
NoNestedAcquire ==
    /\ \A t \in Threads : \A e \in Entities :
          (elock[e] # t /\ elock'[e] = t) => HeldBy(t) = {}
    /\ Len(channel') > Len(channel) => HeldBy("main") = {}
    /\ stepNo' # stepNo => HeldBy("physics") = {}

Owner(l) ==
    IF l = "map" THEN mapLock ELSE IF l = "transforms" THEN trLock ELSE elock[l]

\* the locks the next step of each thread has to take
PWaits ==
    IF ppc = "apply" /\ pcmds # <<>> /\ Head(pcmds).kind \in Implemented
    THEN IF mapLock # "none" THEN {"map"}
         ELSE IF Head(pcmds).id \in registry THEN {Head(pcmds).id} ELSE {}
    ELSE IF ppc = "snapshot" THEN {"map"}
    ELSE IF ppc = "visit" /\ psnap # <<>> THEN {Head(psnap)}
    ELSE IF ppc \in {"pos", "rot"} THEN {"transforms"}
    ELSE {}

MWaits ==
    IF mpc.stage = "locked" /\ mpc.op \in {"input", "render"} THEN {"transforms"}
    ELSE IF mpc.stage = "context" THEN {"map"}
    ELSE IF mpc.stage = "map" THEN {mpc.e}
    ELSE {}

Blocked(waits) == \E l \in waits : Owner(l) # "none"

NoDeadlock == ~(Blocked(PWaits) /\ Blocked(MWaits))

\* C9: with both threads running, no thread takes an entity's lock, sends on
\* the command channel or receives from it while it holds another entity's
\* lock or the transform registry's lock, and the two threads are never both
\* blocked on a lock.
C9_LockDiscipline == [][NoNestedAcquire]_vars /\ []NoDeadlock

\* C9 witness: the physics thread holds the lantern's lock and waits for the
\* transform registry's lock, which the render thread holds under the
\* camera's lock.
C9_Witness ==
    /\ elock["lantern"] = "physics" /\ ppc = "pos"
    /\ elock["camera"] = "main" /\ trLock = "main"
    /\ Blocked(PWaits) /\ ~Blocked(MWaits)

\* the step that is the call of RapierEngine::new
Constructs == ppc = "unbuilt" /\ ppc' = "built"

VisitEnds == ppc \in {"rotw", "skip"} /\ psnap' = Tail(psnap)

\* C14: a Pending body of a registry entity becomes Active: construction
\* leaves no registered entity Pending, and when a step's publish loop has
\* visited an entity, the entity's body is not Pending.
C14_PendingBecomesActive ==
    [][/\ Constructs => \A e \in registry : body'[e] # "Pending"
       /\ VisitEnds => body'[Head(psnap)] # "Pending"]_vars

\* the step in which handle_command returns for the first command left
Handles == ppc \in {"apply", "applying"} /\ pcmds # <<>> /\ pcmds' = Tail(pcmds)

\* the Result logged by that step
HandledResult == phaseLog'[Len(phaseLog')].r

\* C15: a command whose target is an entity with a Pending or a Removed body
\* returns an error, changes no rigid body and no body state, is not put
\* back into the channel or among the commands still to handle, and the
\* loop goes on with the next command; the simulation advances only when
\* every collected command has been handled.
C15_PendingOrRemovedTarget ==
    [][/\ (/\ Handles
           /\ Head(pcmds).id \in registry
           /\ body[Head(pcmds).id] \in {"Pending", "Removed"}) =>
             /\ HandledResult # "ok"
             /\ rbSet' = rbSet
             /\ body' = body
             /\ channel' = channel
             /\ \A i \in DOMAIN pcmds' : pcmds'[i].n # Head(pcmds).n
             /\ ppc' = "apply"
       /\ (ppc = "apply" /\ ppc' = "snapshot") =>
             /\ pcmds = <<>>
             /\ Len(phaseLog) = Len(atCollect)]_vars

\* C15 witness: a step handled a command for the avocado, whose body is
\* Removed, with an error, then applied a command to the lantern, and
\* advanced.
C15_Witness ==
    /\ Len(phaseLog) >= 3
    /\ phaseLog[1].ev = "command" /\ phaseLog[2].ev = "command"
    /\ phaseLog[1].x.id = "avocado"
    /\ phaseLog[1].r = "rigid body has been removed"
    /\ phaseLog[2].x.id = "lantern"
    /\ phaseLog[2].r = "ok"
    /\ phaseLog[3].ev = "advance"

\* C16: a command naming an entity leaves the rigid body of every other
\* entity, every body state and every transform as they were; a command
\* naming an id that no entity of the registry has returns an error and
\* changes nothing.
C16_OnlyTheTarget ==
    [][Handles =>
        /\ DOMAIN rbSet' = DOMAIN rbSet
        /\ \A e \in DOMAIN rbSet : e # Head(pcmds).id => rbSet'[e] = rbSet[e]
        /\ body' = body
        /\ transforms' = transforms
        /\ registry' = registry
        /\ Head(pcmds).id \notin registry =>
              /\ HandledResult # "ok"
              /\ rbSet' = rbSet]_vars

\* C16 witness: with the rigid bodies of the lantern and of the avocado in
\* the simulation, a step applied a command to the avocado: the avocado's
\* body has the force, the lantern's has none.
C16_Witness ==
    /\ ppc = "apply"
    /\ phaseLog # <<>>
    /\ phaseLog[1].ev = "command"
    /\ phaseLog[1].x.id = "avocado"
    /\ phaseLog[1].r = "ok"
    /\ DOMAIN rbSet = {"lantern", "avocado"}
    /\ rbSet["avocado"].force # ZeroVec
    /\ rbSet["lantern"].force = ZeroVec

\* C17: a command that handle_command has no arm for returns the error of
\* the wildcard arm and leaves every rigid body and every body state as
\* they were.
C17_Unimplemented ==
    [][(Handles /\ Head(pcmds).kind \in UnimplementedKinds) =>
          /\ HandledResult = "i haven't done this physics command yet lol"
          /\ rbSet' = rbSet
          /\ body' = body]_vars

\* C17 witness: a step handled an Enable command for the lantern, whose
\* body is Active, with the error.
C17_Witness ==
    /\ phaseLog # <<>>
    /\ phaseLog[1].ev = "command"
    /\ phaseLog[1].x.kind = "Enable"
    /\ phaseLog[1].r = "i haven't done this physics command yet lol"
    /\ body[phaseLog[1].x.id] = "Active"

\* the commands a step has applied to an entity's rigid body so far
AppliedTo(e) ==
    {i \in DOMAIN phaseLog :
        phaseLog[i].ev = "command" /\ phaseLog[i].r = "ok" /\ phaseLog[i].x.id = e}

\* C18: every command that was sent is taken by exactly one step and the
\* commands are applied in the order they were sent: a step takes the whole
\* channel, which holds only commands sent after those of the step before,
\* and handles what it took in order; and the effect of a command is in the
\* transforms the same step publishes: when the publish loop has written
\* the transform of an entity that a command of the step was applied to,
\* the transform has the position and the rotation of the entity's rigid
\* body, and the step does not complete without publishing that entity.
C18_CommandsReflected ==
    [][/\ stepNo' # stepNo =>
             /\ pcmds' = channel
             /\ channel' = <<>>
             /\ \A i \in DOMAIN atCollect : \A j \in DOMAIN channel :
                   atCollect[i].n < channel[j].n
       /\ Handles => Head(pcmds) = atCollect[Len(phaseLog) + 1]
       /\ (ppc = "rotw" /\ psnap' = Tail(psnap) /\ AppliedTo(Head(psnap)) # {}) =>
             /\ EntityTransform(transforms', Head(psnap)).translation
                   = rbSet[Head(psnap)].pos
             /\ EntityTransform(transforms', Head(psnap)).rotation
                   = rbSet[Head(psnap)].rot
       /\ (ppc = "visit" /\ ppc' = "sleep") =>
             \A e \in Entities : AppliedTo(e) # {} =>
                \E i \in DOMAIN phaseLog : phaseLog[i] = Phase("publish", e)]_vars

C23_SendNeverWaits ==
    /\ [][Len(channel') > Len(channel) =>
            /\ \E c \in PhysCommands : channel' = Append(channel, Sent(c, mainOps + 1))
            /\ ppc' = ppc
            /\ pcmds' = pcmds
            /\ rbSet' = rbSet
            /\ body' = body]_vars
    /\ []((mpc = Idle /\ mainOps < MaxMainOps /\ ppc # "unbuilt") => ENABLED MSend)

\* C23 witness: two commands were sent while the physics thread was inside
\* a step that had collected its commands, and wait in the channel.
C23_Witness ==
    /\ ppc \in {"apply", "applying", "snapshot", "visit", "pos", "posw", "rot", "rotw"}
    /\ Len(channel) = MaxMainOps
    /\ mpc = Idle

(***************************************************************************)
(* The entity registry as a map: EntityRegistry::add, remove, get, len,    *)
(* into_iter, and EventHandler::send_event over it                         *)
(***************************************************************************)
\* an id no entity was created with
UnknownEntityId == "z"

\* the window events of a dispatch
RegEvents == {"KeyboardInput", "Resized"}

\* a mutant of insert: the registry files the entity under the first id
\* that has no entry
InsertedUnderFreeId(map, h) ==
    IF \E id \in RegIds : map[id] = None
    THEN LET free == CHOOSE id \in RegIds : map[id] = None
         IN [map EXCEPT ![free] = Some(h)]
    ELSE [map EXCEPT ![EntityId(h)] = Some(h)]

\* HashMap::insert(entity.id(), entity)
Inserted(map, h) == [map EXCEPT ![EntityId(h)] = Some(h)]

\* HashMap::remove(id)
Removed(map, id) == [i \in DOMAIN map |-> IF i = id THEN None ELSE map[i]]

\* EntityRegistry::get: HashMap::get(id).cloned()
RegistryGet(map, id) == IF id \in DOMAIN map THEN map[id] ELSE None

\* EntityRegistry::len: HashMap::len
RegistryLen(map) == Cardinality({id \in DOMAIN map : map[id] # None})

\* the containers the map holds
HandlesIn(map) == {h \in RegHandles : \E id \in DOMAIN map : map[id] = Some(h)}

\* into_iter: the values of the map, cloned into a Vec in the order the
\* HashMap iterates in
IntoIter(map) == Orders(HandlesIn(map))

\* a mutant of into_iter: the iterator keeps the read guard while it is
\* consumed
LockHeldByIterator(guard) == guard

\* into_iter: the read guard is a temporary, dropped before into_iter returns
LockAfterIntoIter(guard) == "none"

\* a mutant of for_each's closure: the handler is called once on the way in
\* and once on the way out
InputTwice(h, ev) == <<[h |-> h, ev |-> ev], [h |-> h, ev |-> ev]>>

\* for_each's closure: e.lock().unwrap().input(&event)
InputCalls(h, ev) == <<[h |-> h, ev |-> ev]>>

regOthers == <<registry, channel, trVars, busVars, body, rbSet, published, elock,
               mapLock, trLock, ppc, stepVars, mainVars, clock, walk, ctx, cset, flat,
               drain, share>>

RegOp(kind, arg, res) == [kind |-> kind, arg |-> arg, res |-> res]

\* EntityRegistry::add (the write lock waits for every read guard)
RegAdd ==
    /\ ereg.n < MaxRegOps
    /\ ereg.lock = "none"
    /\ \E h \in RegHandles :
          ereg' = [ereg EXCEPT !.entities = Inserted(ereg.entities, h),
                               !.n = ereg.n + 1,
                               !.op = RegOp("add", h, None)]
    /\ UNCHANGED regOthers

\* EntityRegistry::remove
RegRemove ==
    /\ ereg.n < MaxRegOps
    /\ ereg.lock = "none"
    /\ \E id \in RegIds \cup {UnknownEntityId} :
          ereg' = [ereg EXCEPT !.entities = Removed(ereg.entities, id),
                               !.n = ereg.n + 1,
                               !.op = RegOp("remove", id, None)]
    /\ UNCHANGED regOthers

\* EntityRegistry::get
RegGet ==
    /\ ereg.n < MaxRegOps
    /\ \E id \in RegIds \cup {UnknownEntityId} :
          ereg' = [ereg EXCEPT !.n = ereg.n + 1,
                               !.op = RegOp("get", id, RegistryGet(ereg.entities, id))]
    /\ UNCHANGED regOthers

\* EntityRegistry::len
RegLen ==
    /\ ereg.n < MaxRegOps
    /\ ereg' = [ereg EXCEPT !.n = ereg.n + 1,
                            !.op = RegOp("len", "", Some(RegistryLen(ereg.entities)))]
    /\ UNCHANGED regOthers

\* EventHandler::send_event, up to the for_each: entities.clone().into_iter()
SendEvent ==
    /\ ~ereg.running
    /\ ereg.sent < MaxEvents
    /\ \E ev \in RegEvents, order \in IntoIter(ereg.entities) :
          ereg' = [ereg EXCEPT !.event = ev, !.running = TRUE,
                               !.sent = ereg.sent + 1,
                               !.lock = LockAfterIntoIter("read"),
                               !.snap = order,
                               !.atCall = HandlesIn(ereg.entities),
                               !.yielded = << >>,
                               !.inputs = << >>]
    /\ UNCHANGED regOthers

\* one turn of the for_each: the iterator yields the next container and its
\* entity's input handler runs
SendEventInput ==
    /\ ereg.running
    /\ ereg.snap # << >>
    /\ ereg' = [ereg EXCEPT !.snap = Tail(ereg.snap),
                            !.yielded = Append(ereg.yielded, Head(ereg.snap)),
                            !.inputs = ereg.inputs \o InputCalls(Head(ereg.snap), ereg.event)]
    /\ UNCHANGED regOthers

\* the iterator is exhausted: send_event returns
SendEventReturn ==
    /\ ereg.running
    /\ ereg.snap = << >>
    /\ ereg' = [ereg EXCEPT !.running = FALSE, !.lock = "none"]
    /\ UNCHANGED regOthers

InitReg == InitTr

NextReg ==
    \/ RegAdd
    \/ RegRemove
    \/ RegGet
    \/ RegLen
    \/ SendEvent
    \/ SendEventInput
    \/ SendEventReturn

SpecReg == InitReg /\ [][NextReg]_vars


(***************************************************************************)
(* Claims about the entity registry (checked under SpecReg)                *)
(***************************************************************************)
\* how many times the current dispatch has called the input handler of h
\* with event ev
InputCount(h, ev) ==
    Cardinality({i \in 1..Len(ereg.inputs) : ereg.inputs[i].h = h /\ ereg.inputs[i].ev = ev})

\* C24: a dispatched window event reaches the input handler of every entity
\* that was in the registry when the dispatch took its snapshot exactly once,
\* with that event, and reaches no other entity and carries no other event:
\* while the dispatch runs no handler has been called more than that, and
\* when it has returned every one of them has been called.
C24_InputToSnapshotOnce ==
    ereg.event # "" =>
        /\ \A i \in 1..Len(ereg.inputs) :
              ereg.inputs[i].ev = ereg.event /\ ereg.inputs[i].h \in ereg.atCall
        /\ \A h \in ereg.atCall : InputCount(h, ereg.event) <= 1
        /\ ~ereg.running => \A h \in ereg.atCall : InputCount(h, ereg.event) = 1

\* a dispatch has returned after calling two handlers; meanwhile one of the
\* two entities was removed (its handler ran all the same) and another
\* container was added (its handler did not run)
C24_Witness ==
    /\ ereg.event # "" /\ ~ereg.running
    /\ Len(ereg.inputs) = 2
    /\ \E h \in ereg.atCall : h \notin HandlesIn(ereg.entities)
    /\ \E h \in HandlesIn(ereg.entities) : h \notin ereg.atCall


\* what the iteration has yielded followed by what it has still to yield
Iterated == ereg.yielded \o ereg.snap

\* C25: the iteration over a snapshot yields exactly the containers that
\* were in the registry when into_iter was called, each once (what it has
\* yielded and what it has still to yield are always those containers, and
\* all are yielded when it ends); an add, remove, get or len made after the
\* snapshot changes nothing of the iteration; and while the iteration runs
\* the registry lock is free, so an add and a remove can go ahead.
C25_SnapshotIteration ==
    /\ [][/\ ereg'.event # "" =>
               /\ {ereg'.yielded[i] : i \in 1..Len(ereg'.yielded)}
                     \cup {ereg'.snap[i] : i \in 1..Len(ereg'.snap)} = ereg'.atCall
               /\ Len(ereg'.yielded) + Len(ereg'.snap) = Cardinality(ereg'.atCall)
               /\ ~ereg'.running => ereg'.snap = << >>
          /\ ereg'.n # ereg.n =>
               /\ ereg'.yielded = ereg.yielded
               /\ ereg'.snap = ereg.snap
               /\ ereg'.atCall = ereg.atCall
          /\ (~ereg.running /\ ereg'.running) => ereg'.atCall = HandlesIn(ereg.entities)]_vars
    /\ []((ereg.running /\ ereg.n < MaxRegOps) => ENABLED RegAdd /\ ENABLED RegRemove)

\* an iteration is under way, with a container yielded and one still to
\* come; since the snapshot one of its containers was removed from the
\* registry and a container that is not in it was added
C25_Witness ==
    /\ ereg.running
    /\ ereg.yielded # << >> /\ ereg.snap # << >>
    /\ ereg.n < MaxRegOps
    /\ \E h \in ereg.atCall : h \notin HandlesIn(ereg.entities)
    /\ \E h \in HandlesIn(ereg.entities) : h \notin ereg.atCall


\* the ids get has an answer for
Registered(map) == {id \in RegIds \cup {UnknownEntityId} : RegistryGet(map, id) # None}

\* C26: the registry is a map from the entities' own ids: after add(e),
\* get(e.id) is a handle to e; after remove(id), get(id) is absent; remove
\* of an id with no entry and get of any id change nothing, and get of an
\* id with no entry is absent; len is the number of ids that get answers.
C26_MapSemantics ==
    [][ereg'.n # ereg.n =>
          /\ ereg'.op.kind = "add" =>
                RegistryGet(ereg'.entities, EntityId(ereg'.op.arg)) = Some(ereg'.op.arg)
          /\ ereg'.op.kind = "remove" =>
                /\ RegistryGet(ereg'.entities, ereg'.op.arg) = None
                /\ ereg'.op.arg \notin Registered(ereg.entities)
                      => ereg'.entities = ereg.entities
          /\ ereg'.op.kind = "get" =>
                /\ ereg'.entities = ereg.entities
                /\ ereg'.op.arg \notin Registered(ereg.entities) => ereg'.op.res = None
                /\ ereg'.op.arg \in Registered(ereg.entities)
                      => ereg'.op.res = ereg.entities[ereg'.op.arg]
          /\ ereg'.op.kind = "len" =>
                /\ ereg'.entities = ereg.entities
                /\ ereg'.op.res = Some(Cardinality(Registered(ereg.entities)))
          /\ RegistryLen(ereg'.entities) = Cardinality(Registered(ereg'.entities))]_vars

\* h2, a second container with the id of h1, has just been added over h1
\* while the other id has no entry: get of the shared id answers h2, and one
\* id is registered
C26_Witness ==
    /\ ereg.op.kind = "add" /\ ereg.op.arg = "h2"
    /\ ereg.n >= 3
    /\ RegistryGet(ereg.entities, EntityId("h1")) = Some("h2")
    /\ RegistryGet(ereg.entities, EntityId("h3")) = None
    /\ RegistryLen(ereg.entities) = 1


(***************************************************************************)
(* The recursion of TransformRegistry::get, one frame at a time, over      *)
(* every content the map HashMap<TransformId, RegistryTransform> can hold  *)
(***************************************************************************)
\* the contents of the map: each node's parent is None or any id
WalkContents ==
    UNION {[1..n -> {[parent |-> p, local |-> bt, global |-> bt] :
                       p \in {None} \cup {Some(q) : q \in 1..n \cup {UnknownTransformId}},
                       bt \in {BasicTransform(<<1, 0, 0>>, QuatZ90, <<1, 1, 1>>)}}] :
           n \in 1..MaxTransforms}

walkOthers == <<registry, channel, trVars, busVars, body, rbSet, published, elock,
                mapLock, trLock, ppc, stepVars, mainVars, clock, ereg, ctx, cset, flat,
                drain, share>>

\* a caller calls get(id)
WalkGet ==
    /\ walk.pc \in {"idle", "returned"}
    /\ \E id \in DOMAIN transforms \cup {UnknownTransformId} :
          walk' = [pc |-> "get", id |-> id, cur |-> id, depth |-> 1, res |-> ""]
    /\ UNCHANGED walkOthers

\* self.transforms.get(&id)? finds no entry: None, through every frame
WalkMiss ==
    /\ walk.pc = "get"
    /\ walk.cur \notin DOMAIN transforms
    /\ walk' = [walk EXCEPT !.pc = "returned", !.res = "None"]
    /\ UNCHANGED walkOthers

\* the node has no parent: the frames return Some, one after the other
WalkRoot ==
    /\ walk.pc = "get"
    /\ walk.cur \in DOMAIN transforms
    /\ transforms[walk.cur].parent = None
    /\ walk' = [walk EXCEPT !.pc = "returned", !.res = "Some"]
    /\ UNCHANGED walkOthers

\* the node has a parent: self.get(parent), a new frame
WalkRecurse ==
    /\ walk.pc = "get"
    /\ walk.cur \in DOMAIN transforms
    /\ transforms[walk.cur].parent # None
    /\ walk.depth < MaxStack
    /\ walk' = [walk EXCEPT !.cur = Unwrap(transforms[walk.cur].parent),
                            !.depth = walk.depth + 1]
    /\ UNCHANGED walkOthers

\* ... and no room for the frame: the stack overflows and the process aborts
WalkOverflow ==
    /\ walk.pc = "get"
    /\ walk.cur \in DOMAIN transforms
    /\ transforms[walk.cur].parent # None
    /\ walk.depth = MaxStack
    /\ walk' = [walk EXCEPT !.pc = "overflow"]
    /\ UNCHANGED walkOthers

InitWalk ==
    /\ transforms \in WalkContents
    /\ lastOp = Op("new", UnknownTransformId, None, "")
    /\ registry = {}
    /\ BusNew
    /\ channel = <<>>
    /\ body = [e \in Entities |-> "None"]
    /\ PhysIdle

NextWalk ==
    \/ WalkGet
    \/ WalkMiss
    \/ WalkRoot
    \/ WalkRecurse
    \/ WalkOverflow

SpecWalk == InitWalk /\ [][NextWalk]_vars

CtxValues == {"v1", "v2"}

ctxOthers == <<registry, channel, trVars, busVars, body, rbSet, published, elock,
               mapLock, trLock, ppc, stepVars, mainVars, clock, ereg, walk, cset, flat,
               drain, share>>

CtxOp(kind, id, home, arg, res) ==
    [kind |-> kind, id |-> id, home |-> home, arg |-> arg, res |-> res]

\* the node of id in a registry's map: an entry of a sequence of <<id, local>>
NodesWith(nodes, id) == {i \in DOMAIN nodes : nodes[i][1] = id}

\* TransformRegistry::get of a node without a parent, in the registry the
\* Context holds under TypeId::of::<TransformRegistry>()
CtxResolve(id) ==
    IF ctx.entry = None THEN None
    ELSE LET nodes == ctx.nodes[Unwrap(ctx.entry)] IN
         IF NodesWith(nodes, id) = {} THEN None
         ELSE Some(nodes[CHOOSE i \in NodesWith(nodes, id) : TRUE][2])

\* Context::add(registry): insert under the TypeId, replacing the entry
ContextAdd ==
    /\ ctx.n < MaxCtxOps
    /\ \E r \in CtxRegistries \ ctx.added :
          ctx' = [ctx EXCEPT !.entry = Some(r), !.added = ctx.added \cup {r},
                             !.n = ctx.n + 1,
                             !.op = CtxOp("add", 0, r, None, None)]
    /\ UNCHANGED ctxOthers

\* TransformRegistry::transform on a registry the caller still owns or on
\* the one the Context holds: a new node and a handle {id, context}
CtxTransform ==
    /\ ctx.n < MaxCtxOps
    /\ \E r \in CtxRegistries, v \in CtxValues :
          /\ r \notin ctx.added \/ ctx.entry = Some(r)
          /\ LET id == Cardinality(ctx.handles) + 1   \* Uuid::new_v4(): a new id
             IN
             ctx' = [ctx EXCEPT !.nodes[r] = Append(ctx.nodes[r], <<id, v>>),
                                !.handles = ctx.handles \cup {[id |-> id, home |-> r]},
                                !.n = ctx.n + 1,
                                !.op = CtxOp("transform", id, r, Some(v), None)]
    /\ UNCHANGED ctxOthers

\* Transform::local
HandleLocal ==
    /\ ctx.n < MaxCtxOps
    /\ \E h \in ctx.handles :
          ctx' = [ctx EXCEPT !.n = ctx.n + 1,
                             !.op = CtxOp("local", h.id, h.home, None, CtxResolve(h.id))]
    /\ UNCHANGED ctxOthers

\* Transform::global (the nodes have no parent: global is local)
HandleGlobal ==
    /\ ctx.n < MaxCtxOps
    /\ \E h \in ctx.handles :
          ctx' = [ctx EXCEPT !.n = ctx.n + 1,
                             !.op = CtxOp("global", h.id, h.home, None, CtxResolve(h.id))]
    /\ UNCHANGED ctxOthers

\* Transform::set: TransformRegistry::set on the registry the Context holds
HandleSet ==
    /\ ctx.n < MaxCtxOps
    /\ \E h \in ctx.handles, v \in CtxValues :
          IF CtxResolve(h.id) = None
          THEN ctx' = [ctx EXCEPT !.n = ctx.n + 1,
                                  !.op = CtxOp("set", h.id, h.home, Some(v), None)]
          ELSE LET r == Unwrap(ctx.entry) IN
               ctx' = [ctx EXCEPT
                         !.nodes[r] = [i \in DOMAIN ctx.nodes[r] |->
                                          IF ctx.nodes[r][i][1] = h.id THEN <<h.id, v>>
                                          ELSE ctx.nodes[r][i]],
                         !.n = ctx.n + 1,
                         !.op = CtxOp("set", h.id, h.home, Some(v), Some("()"))]
    /\ UNCHANGED ctxOthers

InitCtx == InitTr

NextCtx ==
    \/ ContextAdd
    \/ CtxTransform
    \/ HandleLocal
    \/ HandleGlobal
    \/ HandleSet

SpecCtx == InitCtx /\ [][NextCtx]_vars

\* the local of the node that was created for a handle, in the registry
\* that created it
HomeLocal(id, home) ==
    ctx.nodes[home][CHOOSE i \in NodesWith(ctx.nodes[home], id) : TRUE][2]

\* C32: a handle stays bound to the registry whose transform() returned it:
\* after any operations on the shared Context, another registry added to it
\* included, local and global return the local of the node created for the
\* handle in that registry, and set writes that node.
C32_HandleBoundToRegistry ==
    /\ ctx.op.kind \in {"local", "global"} =>
          ctx.op.res = Some(HomeLocal(ctx.op.id, ctx.op.home))
    /\ ctx.op.kind = "set" =>
          /\ ctx.op.res # None
          /\ Some(HomeLocal(ctx.op.id, ctx.op.home)) = ctx.op.arg


(***************************************************************************)
(* The component store: ComponentSet::add, remove, get, get_mut, has       *)
(***************************************************************************)
\* the values of a component type
CompValues == {"c1", "c2"}

\* TypeId::of::<C>()
TypeIdOf(C) == C

\* Box::new(component): the value behind dyn Component, with its own type
Boxed(C, c) == [type |-> C, val |-> c]

\* the entries of the map: <<key, box>>
EntriesAt(components, key) == {e \in components : e[1] = key}

\* a mutant of insert: an entry that is there is kept
InsertedIfAbsent(components, C, c) ==
    IF EntriesAt(components, TypeIdOf(C)) # {} THEN components
    ELSE components \cup {<<TypeIdOf(C), Boxed(C, c)>>}

\* a mutant of insert: the new entry is put beside the one that is there
InsertedBeside(components, C, c) == components \cup {<<TypeIdOf(C), Boxed(C, c)>>}

\* HashMap::insert(TypeId::of::<C>(), Box::new(component))
CompInserted(components, C, c) ==
    (components \ EntriesAt(components, TypeIdOf(C))) \cup {<<TypeIdOf(C), Boxed(C, c)>>}

\* a mutant of remove: the store is emptied
CompCleared(components, C) == {}

\* HashMap::remove(&TypeId::of::<C>()): the map afterwards
CompRemoved(components, C) == components \ EntriesAt(components, TypeIdOf(C))

\* HashMap::get(&TypeId::of::<C>()): the box under the key, if any
CompLookup(components, C) ==
    IF EntriesAt(components, TypeIdOf(C)) = {} THEN None
    ELSE Some((CHOOSE e \in EntriesAt(components, TypeIdOf(C)) : TRUE)[2])

\* boxed.as_any().downcast_ref::<C>(): as_any returns self, and the
\* downcast succeeds when the value's own type is C
DowncastRef(box, C) == IF box.type = C THEN Some(box.val) ELSE None

\* ComponentSet::get and get_mut: what the reference points to
CompGotten(components, C) ==
    IF CompLookup(components, C) = None THEN None
    ELSE DowncastRef(Unwrap(CompLookup(components, C)), C)

\* ComponentSet::has
CompHasType(components, C) == EntriesAt(components, TypeIdOf(C)) # {}

compOthers == <<registry, channel, trVars, busVars, body, rbSet, published, elock,
                mapLock, trLock, ppc, stepVars, mainVars, clock, ereg, walk, ctx, flat,
                drain, share>>

CompOp(kind, C, arg, res) == [kind |-> kind, type |-> C, arg |-> arg, res |-> res]

\* ComponentSet::add
CompAdd ==
    /\ cset.n < MaxCompOps
    /\ \E C \in CompTypes, c \in CompValues :
          cset' = [cset EXCEPT !.components = CompInserted(cset.components, C, c),
                               !.n = cset.n + 1,
                               !.added[C] = Some(c),
                               !.unwritten[C] = Some(c),
                               !.replaced = CompGotten(cset.components, C),
                               !.op = CompOp("add", C, Some(c), None)]
    /\ UNCHANGED compOthers

\* ComponentSet::remove
CompRemove ==
    /\ cset.n < MaxCompOps
    /\ \E C \in CompTypes :
          cset' = [cset EXCEPT !.components = CompRemoved(cset.components, C),
                               !.n = cset.n + 1,
                               !.added[C] = None,
                               !.unwritten[C] = None,
                               !.op = CompOp("remove", C, None,
                                             IF CompLookup(cset.components, C) = None
                                             THEN None
                                             ELSE Some(Unwrap(CompLookup(cset.components, C)).val))]
    /\ UNCHANGED compOthers

\* ComponentSet::get
CompGet ==
    /\ cset.n < MaxCompOps
    /\ \E C \in CompTypes :
          cset' = [cset EXCEPT !.n = cset.n + 1,
                               !.op = CompOp("get", C, None, CompGotten(cset.components, C))]
    /\ UNCHANGED compOthers

\* ComponentSet::get_mut, and what the caller does with the &mut C: nothing
\* when there is no component, else it may assign through the reference (as
\* RapierEngine::new does to the state of a PhysicsBody)
CompGetMut ==
    /\ cset.n < MaxCompOps
    /\ \E C \in CompTypes, c \in CompValues :
          IF CompGotten(cset.components, C) = None
          THEN cset' = [cset EXCEPT !.n = cset.n + 1,
                                    !.op = CompOp("get_mut", C, None, None)]
          ELSE cset' = [cset EXCEPT
                          !.components = (cset.components \ EntriesAt(cset.components, TypeIdOf(C)))
                                            \cup {<<TypeIdOf(C), Boxed(C, c)>>},
                          !.n = cset.n + 1,
                          !.unwritten[C] = IF CompGotten(cset.components, C) = Some(c)
                                           THEN cset.unwritten[C] ELSE None,
                          !.op = CompOp("get_mut", C, Some(c), CompGotten(cset.components, C))]
    /\ UNCHANGED compOthers

\* ComponentSet::has
CompHas ==
    /\ cset.n < MaxCompOps
    /\ \E C \in CompTypes :
          cset' = [cset EXCEPT !.n = cset.n + 1,
                               !.op = CompOp("has", C, None,
                                             Some(CompHasType(cset.components, C)))]
    /\ UNCHANGED compOthers

InitComp == InitTr

NextComp ==
    \/ CompAdd
    \/ CompRemove
    \/ CompGet
    \/ CompGetMut
    \/ CompHas

SpecComp == InitComp /\ [][NextComp]_vars


(***************************************************************************)
(* Claims about the component store (checked under SpecComp)               *)
(***************************************************************************)
\* C33 as stated: after add(c), the next get::<C>() with no add or remove
\* of type C in between returns a value equal to c, whatever is done to the
\* other component types meanwhile.
C33_RoundTrip ==
    (cset.op.kind = "get" /\ cset.added[cset.op.type] # None) =>
       cset.op.res = cset.added[cset.op.type]

\* C33, amended: after add(c), the next get::<C>() with no add or remove of
\* type C and no write through get_mut::<C>() in between returns a value
\* equal to c, whatever is done to the other component types meanwhile.
C33_RoundTripUnwritten ==
    (cset.op.kind = "get" /\ cset.unwritten[cset.op.type] # None) =>
       cset.op.res = cset.unwritten[cset.op.type]

\* get has just returned the value that was added for its type, as the last
\* of the calls followed, while the store holds a component of another type
C33_Witness ==
    /\ cset.op.kind = "get"
    /\ cset.unwritten[cset.op.type] # None
    /\ cset.op.res = cset.unwritten[cset.op.type]
    /\ cset.n = MaxCompOps
    /\ Cardinality(cset.components) >= 2


\* the stored components whose own type is C
OfType(components, C) == {e \in components : e[2].type = C}

\* C34: after any sequence of calls the store holds at most one component
\* of each type; add of a type that is present replaces the stored value
\* (get returns the value just added) and leaves the number of stored
\* components as it was, and add of a type that is not present adds one.
C34_OnePerType ==
    /\ [](\A C \in CompTypes : Cardinality(OfType(cset.components, C)) <= 1)
    /\ [][(cset'.n # cset.n /\ cset'.op.kind = "add") =>
             /\ CompGotten(cset'.components, cset'.op.type) = cset'.op.arg
             /\ Cardinality(cset'.components) =
                   IF CompHasType(cset.components, cset'.op.type)
                   THEN Cardinality(cset.components)
                   ELSE Cardinality(cset.components) + 1]_vars

\* add has just replaced a component by another value of its type, in a
\* store that holds a component of another type too
C34_Witness ==
    /\ cset.op.kind = "add"
    /\ cset.replaced # None
    /\ cset.replaced # cset.op.arg
    /\ CompGotten(cset.components, cset.op.type) = cset.op.arg
    /\ Cardinality(cset.components) = 2


\* C35: remove::<T>() returns the stored value of type T; afterwards get of
\* T is absent and has of T is false, and the components of every other
\* type are as before; on a store without T remove and get return absent
\* and has returns false; get and has never change the store.
C35_RemoveGetHas ==
    [][cset'.n # cset.n =>
          LET T == cset'.op.type
              before == cset.components
              after == cset'.components
          IN  /\ cset'.op.kind = "remove" =>
                    /\ cset'.op.res = CompGotten(before, T)
                    /\ CompGotten(after, T) = None
                    /\ ~CompHasType(after, T)
                    /\ \A C \in CompTypes \ {T} : CompGotten(after, C) = CompGotten(before, C)
                    /\ CompGotten(before, T) = None => after = before
              /\ cset'.op.kind = "get" =>
                    /\ after = before
                    /\ cset'.op.res = CompGotten(before, T)
                    /\ ~CompHasType(before, T) => cset'.op.res = None
              /\ cset'.op.kind = "has" =>
                    /\ after = before
                    /\ cset'.op.res = Some(CompGotten(before, T) # None)]_vars

\* remove has just returned a component, and the store still holds one of
\* another type
C35_Witness ==
    /\ cset.op.kind = "remove"
    /\ cset.op.res # None
    /\ cset.components # {}
    /\ \A C \in CompTypes : cset.added[C] # None => CompGotten(cset.components, C) # None


(***************************************************************************)
(* Model::get_nodes_flattened                                              *)
(***************************************************************************)
\* glam Mat4, for the matrices of a rotation followed by a translation
Mat4(rot, tr) == [rot |-> rot, tr |-> tr]

\* Mat4::IDENTITY
Mat4Identity == Mat4(QuatIdentity, <<0, 0, 0>>)

\* Mat4 * Mat4
MatMul(a, b) ==
    Mat4(QuatMul(a.rot, b.rot), VecAdd(QuatRotate(a.rot, b.tr), a.tr))

\* the transforms of the nodes: one of them turns, and they do not commute
NodeMats == {Mat4(QuatIdentity, <<0, 1, 0>>), Mat4(QuatX90, <<1, 0, 0>>)}

\* the hierarchies of up to MaxNodes nodes.  Node i is ModelNode i; parent[i]
\* is the node whose nodes vector holds it (0: Model.nodes), and a vector
\* holds its nodes in the order of their numbers; the number of a node
\* stands for its meshes.
FlatModels ==
    UNION {{[parent |-> p, transform |-> t] :
              p \in {f \in [1..n -> 0..n] : \A i \in 1..n : f[i] < i},
              t \in [1..n -> NodeMats]} : n \in 0..MaxNodes}

\* a set of node numbers as the vector that holds them
RECURSIVE InStoredOrder(_)
InStoredOrder(S) ==
    IF S = {} THEN << >>
    ELSE LET first == CHOOSE i \in S : \A j \in S : i <= j
         IN  <<first>> \o InStoredOrder(S \ {first})

\* n.nodes (for 0: Model.nodes)
NodesOf(model, n) == InStoredOrder({i \in DOMAIN model.parent : model.parent[i] = n})

\* a mutant of the product: the node's transform on the left
CombinedReversed(upper, t) == MatMul(t, upper)

\* upper_transform * n.transform
Combined(upper, t) == MatMul(upper, t)

\* Model::get_nodes_recurse: for each n of nodes, the new node followed by
\* the result for n.nodes (children.insert(0, node)), flattened
RECURSIVE GetNodesRecurse(_, _, _)
GetNodesRecurse(model, nodes, upper_transform) ==
    IF nodes = << >> THEN << >>
    ELSE LET n == Head(nodes)
             node == [transform |-> Combined(upper_transform, model.transform[n]),
                      meshes |-> n,
                      nodes |-> << >>]
             children == GetNodesRecurse(model, NodesOf(model, n), node.transform)
         IN  (<<node>> \o children) \o GetNodesRecurse(model, Tail(nodes), upper_transform)

\* Model::get_nodes_flattened
GetNodesFlattened(model) == GetNodesRecurse(model, NodesOf(model, 0), Mat4Identity)

flatOthers == <<registry, channel, trVars, busVars, body, rbSet, published, elock,
                mapLock, trLock, ppc, stepVars, mainVars, clock, ereg, walk, ctx, cset,
                drain, share>>

\* a Model is built (loaded from an asset)
ModelNew ==
    /\ flat.pc = "idle"
    /\ \E model \in FlatModels :
          flat' = [flat EXCEPT !.pc = "model", !.model = model]
    /\ UNCHANGED flatOthers

\* model.get_nodes_flattened()
ModelFlatten ==
    /\ flat.pc = "model"
    /\ flat' = [flat EXCEPT !.pc = "flattened", !.out = GetNodesFlattened(flat.model)]
    /\ UNCHANGED flatOthers

InitFlat == InitTr

NextFlat ==
    \/ ModelNew
    \/ ModelFlatten

SpecFlat == InitFlat /\ [][NextFlat]_vars

\* the nodes from the top of the hierarchy down to node i
RECURSIVE PathTo(_, _)
PathTo(model, i) ==
    IF model.parent[i] = 0 THEN <<i>>
    ELSE Append(PathTo(model, model.parent[i]), i)

\* the product of the transforms of the first k nodes of a path, in order
RECURSIVE PathProduct(_, _, _)
PathProduct(model, path, k) ==
    IF k = 0 THEN Mat4Identity
    ELSE MatMul(PathProduct(model, path, k - 1), model.transform[path[k]])

\* node a is node d or one of d's ancestors
IsAncestorOrSelf(model, a, d) == \E k \in 1..Len(PathTo(model, d)) : PathTo(model, d)[k] = a

\* pre-order: an ancestor comes before its descendants, and where two paths
\* part the one through the earlier sibling comes first
PreOrderBefore(model, a, b) ==
    LET pa == PathTo(model, a)
        pb == PathTo(model, b)
    IN  \/ a # b /\ IsAncestorOrSelf(model, a, b)
        \/ \E k \in 1..Len(pa) :
              /\ k <= Len(pb)
              /\ \A j \in 1..(k - 1) : pa[j] = pb[j]
              /\ pa[k] < pb[k]

\* C36: get_nodes_flattened returns one entry for each node of the
\* hierarchy, in pre-order (a parent before its descendants, which follow
\* it without a gap, and siblings in stored order); every entry has no
\* child nodes and carries the product of the transforms of the node's
\* ancestors, from the top down, and then its own.
C36_FlattenPreOrder ==
    flat.pc = "flattened" =>
       LET model == flat.model
           out == flat.out
       IN  /\ Len(out) = Len(model.parent)
           /\ \A i \in DOMAIN model.parent : \E p \in DOMAIN out : out[p].meshes = i
           /\ \A p, q \in DOMAIN out :
                 p < q => PreOrderBefore(model, out[p].meshes, out[q].meshes)
           /\ \A p, q \in DOMAIN out :
                 (p < q /\ IsAncestorOrSelf(model, out[p].meshes, out[q].meshes)) =>
                    \A r \in p..q : IsAncestorOrSelf(model, out[p].meshes, out[r].meshes)
           /\ \A p \in DOMAIN out :
                 /\ out[p].nodes = << >>
                 /\ out[p].transform =
                       PathProduct(model, PathTo(model, out[p].meshes),
                                   Len(PathTo(model, out[p].meshes)))

\* a flattened hierarchy with a node three levels down whose ancestors'
\* transforms do not commute, next to a second top-level node
C36_Witness ==
    /\ flat.pc = "flattened"
    /\ Len(flat.out) = MaxNodes
    /\ \E i \in DOMAIN flat.model.parent :
          /\ Len(PathTo(flat.model, i)) = 3
          /\ flat.model.transform[PathTo(flat.model, i)[1]]
                # flat.model.transform[PathTo(flat.model, i)[2]]
    /\ Cardinality({i \in DOMAIN flat.model.parent : flat.model.parent[i] = 0}) = 2


(***************************************************************************)
(* Engine::handle_messages statement by statement, with the threads that    *)
(* hold a clone of an entity's Arc                                          *)
(***************************************************************************)
drainOthers == <<registry, trVars, body, rbSet, published, elock, mapLock, trLock, ppc,
                 stepVars, mainVars, clock, ereg, walk, ctx, cset, flat, share>>

\* the frame of the call under way
DrainFrame == stack[1]

\* a thread that holds a clone of the entity's Arc locks the entity and
\* calls update() on it, at any time the lock is free: also between the two
\* lock() calls of the closure in handle_messages
DrainEntityUpdate ==
    /\ nextSeq <= MaxMsgs
    /\ \E e \in registry \cap TestObjs :
          entQueue' = UpdateAll(<<e>>, entQueue, nextSeq)
    /\ nextSeq' = nextSeq + 1
    /\ UNCHANGED <<ehQueue, rnQueue, stack, log, channel, drain, nextCycle, drainOthers>>

\* the event handler or the renderer pushes a message to its own queue; they
\* belong to the Engine and run on the thread of handle_messages
DrainSubsystemPush ==
    /\ drain.pc = "idle"
    /\ nextSeq <= MaxMsgs
    /\ \E q \in {"EventHandler", "Renderer"} :
          LET msg == Message([kind |-> "HandleResize", arg |-> "w1"], q, nextSeq)
          IN  /\ ehQueue' = IF q = "EventHandler" THEN Append(ehQueue, msg) ELSE ehQueue
              /\ rnQueue' = IF q = "Renderer" THEN Append(rnQueue, msg) ELSE rnQueue
    /\ nextSeq' = nextSeq + 1
    /\ UNCHANGED <<entQueue, stack, log, channel, drain, nextCycle, drainOthers>>

\* handle_messages is called: the clones of the two subsystem queues, and
\* self.objects.clone().into_iter()
DrainBegin ==
    /\ drain.pc = "idle"
    /\ nextCycle <= MaxCycles
    /\ \E order \in Orders(registry) :
          drain' = [pc |-> "map", todo |-> order]
    /\ stack' = <<[cycle |-> nextCycle, rem |-> <<ehQueue, rnQueue, << >>>>,
                   snap |-> ehQueue \o rnQueue]>>
    /\ nextCycle' = nextCycle + 1
    /\ UNCHANGED <<ehQueue, rnQueue, entQueue, log, nextSeq, channel, drainOthers>>

\* let msgs = e.lock().unwrap().get_messages().clone(): the guard is dropped
\* at the end of the statement
DrainReadEntity ==
    /\ drain.pc = "map" /\ drain.todo # << >>
    /\ stack' = [stack EXCEPT ![1].rem[3] = @ \o entQueue[Head(drain.todo)],
                              ![1].snap = @ \o entQueue[Head(drain.todo)]]
    /\ drain' = [drain EXCEPT !.pc = "read"]
    /\ UNCHANGED <<ehQueue, rnQueue, entQueue, log, nextSeq, channel, nextCycle, drainOthers>>

\* e.lock().unwrap().clear_messages(): a second lock() of the same entity
DrainClearEntity ==
    /\ drain.pc = "read"
    /\ entQueue' = [entQueue EXCEPT ![Head(drain.todo)] = << >>]
    /\ drain' = [pc |-> "map", todo |-> Tail(drain.todo)]
    /\ UNCHANGED <<ehQueue, rnQueue, stack, log, nextSeq, channel, nextCycle, drainOthers>>

\* self.event_handler.clear_messages(); self.renderer.clear_messages()
DrainClearSubsystems ==
    /\ drain.pc = "map" /\ drain.todo = << >>
    /\ ehQueue' = << >>
    /\ rnQueue' = << >>
    /\ drain' = [drain EXCEPT !.pc = "dispatch"]
    /\ UNCHANGED <<entQueue, stack, log, nextSeq, channel, nextCycle, drainOthers>>

\* one turn of the dispatch loop: a PhysicsCommand goes to the channel, a
\* HandleResize to the window
DrainDispatch ==
    /\ drain.pc = "dispatch" /\ Remaining(DrainFrame) # << >>
    /\ log' = Logged
    /\ stack' = Popped
    /\ channel' = IF NextMsg.kind = "Physics"
                  THEN Append(channel, [kind |-> "ApplyForce", id |-> NextMsg.arg,
                                        n |-> NextMsg.seq])
                  ELSE channel
    /\ UNCHANGED <<ehQueue, rnQueue, entQueue, nextSeq, drain, nextCycle, drainOthers>>

\* the dispatch loop ends and handle_messages returns
DrainReturn ==
    /\ drain.pc = "dispatch" /\ Remaining(DrainFrame) = << >>
    /\ stack' = << >>
    /\ drain' = DrainIdle
    /\ UNCHANGED <<ehQueue, rnQueue, entQueue, log, nextSeq, channel, nextCycle, drainOthers>>

InitDrain == InitBus

NextDrain ==
    \/ DrainEntityUpdate
    \/ DrainSubsystemPush
    \/ DrainBegin
    \/ DrainReadEntity
    \/ DrainClearEntity
    \/ DrainClearSubsystems
    \/ DrainDispatch
    \/ DrainReturn

SpecDrain == InitDrain /\ [][NextDrain]_vars

\* the message with enqueue stamp s waits: in a queue, or in the snapshot of
\* the call under way
Waiting(s) ==
    \/ \E k \in DOMAIN ehQueue : ehQueue[k].seq = s
    \/ \E k \in DOMAIN rnQueue : rnQueue[k].seq = s
    \/ \E e \in BusEntities : \E k \in DOMAIN entQueue[e] : entQueue[e][k].seq = s
    \/ stack # << >> /\ \E k \in DOMAIN Remaining(DrainFrame) : Remaining(DrainFrame)[k].seq = s

\* the dispatches of the message with enqueue stamp s
Dispatches(s) == {k \in DOMAIN log : log[k].msg.seq = s}

\* C37: no message is lost or duplicated by a drain, also when a thread
\* pushes to an entity's queue between the drain's read of that queue and its
\* clear: every message pushed so far either waits to be dispatched or was
\* dispatched once.
C37_NoMessageLostOrDuplicated ==
    \A s \in 1..(nextSeq - 1) :
       Cardinality(Dispatches(s)) + (IF Waiting(s) THEN 1 ELSE 0) = 1


(***************************************************************************)
(* The parent links of the Transform Registry (checked under SpecTr)        *)
(***************************************************************************)
\* the calls of get that get(id) makes, itself included, counted up to fuel
RECURSIVE GetCalls(_, _, _)
GetCalls(trs, id, fuel) ==
    IF fuel = 0 THEN 0
    ELSE IF id \notin DOMAIN trs THEN 1
    ELSE IF trs[id].parent = None THEN 1
    ELSE 1 + GetCalls(trs, Unwrap(trs[id].parent), fuel - 1)

\* the nodes the parent links lead to from id in at most fuel steps, id
\* included
RECURSIVE ChainWithin(_, _, _)
ChainWithin(trs, id, fuel) ==
    IF fuel = 0 \/ id \notin DOMAIN trs THEN {}
    ELSE IF trs[id].parent = None THEN {id}
    ELSE {id} \cup ChainWithin(trs, Unwrap(trs[id].parent), fuel - 1)

\* the recursive calls of get(id): its calls without the first one
GetRecursions(trs, id) == GetCalls(trs, id, Len(trs) + 2) - 1

\* C39: the parent links form a forest.  A step of transform() or set()
\* keeps every node and every parent link and gives a new node an id that
\* was not in use; no node is its own ancestor, and get recurses at most as
\* many times as there are transforms, whatever id it is called with.
C39_ParentLinksForest ==
    /\ [](\A id \in KnownIds \cup {UnknownTransformId} :
             /\ GetRecursions(transforms, id) <= Len(transforms)
             /\ id \in KnownIds /\ transforms[id].parent # None =>
                   id \notin ChainWithin(transforms, Unwrap(transforms[id].parent),
                                          Len(transforms)))
    /\ [][/\ \A id \in KnownIds :
                /\ id \in DOMAIN transforms'
                /\ transforms'[id].parent = transforms[id].parent
          /\ Len(transforms') <= Len(transforms) + 1]_vars

\* C39 witness: a chain of three nodes, the last one created under the
\* second, after a set() on a node of the chain
C39_Witness ==
    /\ Len(transforms) = 3
    /\ transforms[3].parent = Some(2)
    /\ transforms[2].parent = Some(1)
    /\ transforms[1].parent = None
    /\ lastOp.kind = "set" /\ lastOp.res = "Some"
    /\ GetRecursions(transforms, 3) = 2

(***************************************************************************)
(* Active handles and the rigid body set                                    *)
(***************************************************************************)
\* the publish loop is at an entity whose body it has matched as Active or
\* Pending and has the rigid body to look up
PublishReads == ppc \in {"pos", "posw", "rot", "rotw"}

ShareParts == {"Engine", "Renderer", "EventHandler", "Physics"}

shareOthers == <<registry, channel, trVars, busVars, body, rbSet, published, elock,
                 mapLock, trLock, ppc, stepVars, mainVars, clock, ereg, walk, ctx, cset,
                 flat, drain>>

\* Engine::new(renderer_type, entities, default_camera_id): every part gets a
\* clone of the caller's registry
ShareEngineNew ==
    /\ ~share.built
    /\ \E m \in ShareMaps :
          share' = [share EXCEPT !.built = TRUE,
                                 !.objects = [p \in ShareParts |-> m]]
    /\ UNCHANGED shareOthers

\* EntityRegistry::add through a clone of a registry (a part's, or one the
\* caller kept): the insert goes to the map the clones share
ShareAdd ==
    /\ \E m \in ShareMaps : \E e \in Entities \ share.entities[m] :
          share' = [share EXCEPT !.entities[m] = @ \cup {e}]
    /\ UNCHANGED shareOthers

\* EntityRegistry::remove through a clone
ShareRemove ==
    /\ \E m \in ShareMaps : \E e \in share.entities[m] :
          share' = [share EXCEPT !.entities[m] = @ \ {e}]
    /\ UNCHANGED shareOthers

\* Engine::set_objects(objects): self.objects = objects
ShareSetObjects ==
    /\ share.built
    /\ \E m \in ShareMaps : share' = [share EXCEPT !.objects["Engine"] = m]
    /\ UNCHANGED shareOthers

InitShare == InitTr

NextShare ==
    \/ ShareEngineNew
    \/ ShareAdd
    \/ ShareRemove
    \/ ShareSetObjects

SpecShare == InitShare /\ [][NextShare]_vars

\* the entities a part finds when it iterates its registry
Observed(p) == share.entities[share.objects[p]]

\* C40: at every point after Engine::new the orchestrator, the renderer, the
\* event handler and the Physics Bridge observe the same entity set, also
\* after Engine::set_objects.
C40_SameEntitySet ==
    share.built =>
       \A p, q \in ShareParts : Observed(p) = Observed(q)

================================================================
